---- MODULE Spec2Model ----
(***************************************************************************)
(* Authority-extended rune indexing core (RuneUpdater, Allocation,         *)
(* Authority, Executor, the two LRU caches and the CompactScript codec).   *)
(*                                                                         *)
(* Conventions                                                             *)
(*   - bytes are naturals 0..255, byte strings and scripts are sequences   *)
(*     of bytes;                                                           *)
(*   - Option<T> is a sequence of length 0 (None) or 1 (Some(x) = <<x>>);  *)
(*   - a table is a function whose domain is the set of present keys, a    *)
(*     multimap table is a function from keys to sets of values;           *)
(*   - a RuneId is the pair <<block, tx>>, an OutPoint the pair            *)
(*     <<txid, vout>> with a 0-based vout;                                 *)
(*   - the operators that model Rust methods taking &mut self take the     *)
(*     "world" record w (tables and caches) and return the new world,      *)
(*     together with the method's value in field val where there is one.   *)
(***************************************************************************)
EXTENDS Integers, Sequences, FiniteSets, TLC

VARIABLES
  outpoint_to_balances,          \* OutPoint -> row, a sequence of <<RuneId, amount>>
  id_to_entry,                   \* RuneId -> RuneEntry
  rune_to_id,                    \* rune name -> RuneId
  rune_id_to_authority_flags,    \* RuneId -> u8
  rune_id_to_authority_scripts,  \* RuneId -> blob
  rune_id_to_minters,            \* RuneId -> set of entries
  rune_id_to_blacklist,          \* RuneId -> set of entries
  rune_id_to_supply_extra,       \* RuneId -> u128
  burned,                        \* RuneUpdater.burned
  script_cache,                  \* ScriptCache: [cache, access_order, max_bytes, current_bytes]
  authority_cache,               \* AuthorityContextCache: [contexts, access_order, max_bytes, current_bytes]
  chain,                         \* the node: txid -> sequence of output scripts
  spent,                         \* the node: the outpoints already spent
  tx_index,                      \* index in the block of the next transaction
  last                           \* the last transaction and the locals of its processing

vars == <<outpoint_to_balances, id_to_entry, rune_to_id, rune_id_to_authority_flags,
          rune_id_to_authority_scripts, rune_id_to_minters, rune_id_to_blacklist,
          rune_id_to_supply_extra, burned, script_cache, authority_cache, chain,
          spent, tx_index, last>>

----------------------------------------------------------------------------
(* Generic helpers *)

None == <<>>

Some(x) == <<x>>

IsSome(o) == Len(o) = 1

Unwrap(o) == o[1]

EmptyMap == [k \in {} |-> 0]

Has(m, k) == k \in DOMAIN m

MapInsert(m, k, v) == [x \in (DOMAIN m) \cup {k} |-> IF x = k THEN v ELSE m[x]]

MapRemove(m, k) == [x \in (DOMAIN m) \ {k} |-> m[x]]

MapGetOr(m, k, d) == IF k \in DOMAIN m THEN m[k] ELSE d

\* With([x \in {v} |-> e]) is e with x standing for the value of v, which is
\* evaluated once and before e: the statements of a method run one after the other,
\* each on the results of the ones before
With(f) == f[CHOOSE x \in DOMAIN f : TRUE]

Min(a, b) == IF a < b THEN a ELSE b

Max(a, b) == IF a > b THEN a ELSE b

Range(s) == {s[i] : i \in 1..Len(s)}

Rep(n, b) == [i \in 1..n |-> b]

SeqRemove(s, x) == SelectSeq(s, LAMBDA y : y # x)

RECURSIVE SumSeq(_)
SumSeq(s) == IF s = <<>> THEN 0 ELSE Head(s) + SumSeq(Tail(s))

\* Lexicographic order on byte strings (the order of a multimap's values)
BytesLess(a, b) ==
  \E i \in 1..Len(b) :
     /\ Len(a) >= i - 1
     /\ \A j \in 1..(i - 1) : a[j] = b[j]
     /\ (Len(a) = i - 1 \/ a[i] < b[i])

RECURSIVE SortBytes(_)
SortBytes(S) ==
  IF S = {} THEN <<>>
  ELSE LET m == CHOOSE x \in S : \A y \in S \ {x} : BytesLess(x, y)
       IN <<m>> \o SortBytes(S \ {m})

\* RuneId order: by block, then by tx
IdLess(a, b) == a[1] < b[1] \/ (a[1] = b[1] /\ a[2] < b[2])

RECURSIVE SortIds(_)
SortIds(S) ==
  IF S = {} THEN <<>>
  ELSE LET m == CHOOSE x \in S : \A y \in S \ {x} : IdLess(x, y)
       IN <<m>> \o SortIds(S \ {m})

Reverse(s) == [i \in 1..Len(s) |-> s[Len(s) + 1 - i]]

----------------------------------------------------------------------------
(* ordinals::AuthorityKind / AuthorityBits *)

Mint == "Mint"

Blacklist == "Blacklist"

Master == "Master"

KindOrder == <<Mint, Blacklist, Master>>

mask(kind) == IF kind = Mint THEN 1 ELSE IF kind = Blacklist THEN 2 ELSE 4

\* AuthorityBits are modelled by their low three bits, a number 0..7
from_bits_truncated(bits) == bits % 8

contains(bits, kind) == ((bits % 8) \div mask(kind)) % 2 = 1

insert(bits, kind) == IF contains(bits, kind) THEN bits ELSE bits + mask(kind)

is_empty(bits) == bits % 8 = 0

kinds(bits) == SelectSeq(KindOrder, LAMBDA k : contains(bits, k))

\* authorities.bits() & !kind.mask()
BitsWithout(bits, kind) == IF contains(bits, kind) THEN (bits % 8) - mask(kind) ELSE bits % 8

BitsOf(S) == SumSeq([i \in 1..3 |-> IF KindOrder[i] \in S THEN mask(KindOrder[i]) ELSE 0])

----------------------------------------------------------------------------
(* ordinals::CompactScript *)

P2TR == 0

P2WPKH == 1

P2WSH == 2

OP_PUSHNUM_1 == 81

OP_PUSHBYTES_0 == 0

OP_RETURN == 106

MaxBodyLen == 32

is_op_return(script) == Len(script) >= 1 /\ script[1] = OP_RETURN

\* CompactScript::to_script: Some(script) or None
to_script(compact) ==
  IF Len(compact.body) = 0 \/ Len(compact.body) > MaxBodyLen THEN None
  ELSE IF compact.kind = P2TR
       THEN Some(<<OP_PUSHNUM_1, Len(compact.body)>> \o compact.body)
       ELSE Some(<<OP_PUSHBYTES_0, Len(compact.body)>> \o compact.body)

\* try_from_script that takes an OP_0 push of any length up to 32 for a P2WSH
try_from_script_any_length(bytes) ==
  IF Len(bytes) = 34 /\ bytes[1] = OP_PUSHNUM_1 /\ bytes[2] = 32
  THEN Some([kind |-> P2TR, body |-> SubSeq(bytes, 3, Len(bytes))])
  ELSE IF Len(bytes) >= 2 /\ bytes[1] = OP_PUSHBYTES_0
          /\ bytes[2] <= 32 /\ Len(bytes) = 2 + bytes[2]
       THEN IF bytes[2] = 20
            THEN Some([kind |-> P2WPKH, body |-> SubSeq(bytes, 3, Len(bytes))])
            ELSE Some([kind |-> P2WSH, body |-> SubSeq(bytes, 3, Len(bytes))])
       ELSE None

\* CompactScript::try_from_script: Some(compact) or None
try_from_script(bytes) ==
  IF Len(bytes) = 34 /\ bytes[1] = OP_PUSHNUM_1 /\ bytes[2] = 32
  THEN Some([kind |-> P2TR, body |-> SubSeq(bytes, 3, Len(bytes))])
  ELSE IF Len(bytes) >= 2 /\ bytes[1] = OP_PUSHBYTES_0
          /\ bytes[2] <= 32 /\ Len(bytes) = 2 + bytes[2]
       THEN IF bytes[2] = 20
            THEN Some([kind |-> P2WPKH, body |-> SubSeq(bytes, 3, Len(bytes))])
            ELSE IF bytes[2] = 32
                 THEN Some([kind |-> P2WSH, body |-> SubSeq(bytes, 3, Len(bytes))])
                 ELSE None
       ELSE None

----------------------------------------------------------------------------
(* cache.rs: ScriptCache *)

SCRIPT_CACHE_ENTRY_OVERHEAD == 64

saturating_sub(a, b) == IF a > b THEN a - b ELSE 0

\* ScriptCache::new
ScriptCacheNew(max_bytes) ==
  [cache |-> EmptyMap, access_order |-> <<>>, max_bytes |-> max_bytes, current_bytes |-> 0]

entry_size(script) == Len(script) + SCRIPT_CACHE_ENTRY_OVERHEAD

\* an eviction loop that evicts nothing
ScriptCacheKeepAll(sc) == sc

\* the eviction loop of ScriptCache::put
RECURSIVE ScriptCacheEvict(_)
ScriptCacheEvict(sc) ==
  IF sc.current_bytes > sc.max_bytes /\ sc.access_order # <<>>
  THEN LET oldest == sc.access_order[Len(sc.access_order)]
           rest == SubSeq(sc.access_order, 1, Len(sc.access_order) - 1)
       IN ScriptCacheEvict(
            IF Has(sc.cache, oldest)
            THEN [sc EXCEPT !.access_order = rest,
                            !.cache = MapRemove(@, oldest),
                            !.current_bytes = saturating_sub(@, entry_size(sc.cache[oldest]))]
            ELSE [sc EXCEPT !.access_order = rest])
  ELSE sc

\* ScriptCache::put
ScriptCachePut(sc, key, value) ==
  With([new_size \in {entry_size(value)} |->
    ScriptCacheEvict(
      IF Has(sc.cache, key)
      THEN [sc EXCEPT !.cache = MapInsert(@, key, value),
                      !.current_bytes = saturating_sub(@ + new_size, entry_size(sc.cache[key])),
                      !.access_order = <<key>> \o SeqRemove(@, key)]
      ELSE [sc EXCEPT !.cache = MapInsert(@, key, value),
                      !.current_bytes = @ + new_size,
                      !.access_order = <<key>> \o @])])

\* a get whose hit leaves the order of the keys as it is
ScriptCacheGetInPlace(sc, key) ==
  IF Has(sc.cache, key)
  THEN [sc |-> sc, val |-> Some(sc.cache[key])]
  ELSE [sc |-> sc, val |-> None]

\* ScriptCache::get: a hit moves the key to the front
ScriptCacheGet(sc, key) ==
  IF Has(sc.cache, key)
  THEN [sc |-> [sc EXCEPT !.access_order = <<key>> \o SeqRemove(@, key)],
        val |-> Some(sc.cache[key])]
  ELSE [sc |-> sc, val |-> None]

\* client.get_raw_transaction_info(txid).vout[vout].script_pub_key: Some(script),
\* or None when the transaction is unknown to the node or vout is out of range
ClientScript(ch, outpoint) ==
  IF Has(ch, outpoint[1]) /\ outpoint[2] < Len(ch[outpoint[1]])
  THEN Some(ch[outpoint[1]][outpoint[2] + 1])
  ELSE None

\* ScriptCache::get_script_pubkey
get_script_pubkey(w, outpoint) ==
  With([hit \in {ScriptCacheGet(w.script_cache, outpoint)} |->
    IF IsSome(hit.val)
    THEN [w |-> [w EXCEPT !.script_cache = hit.sc], val |-> hit.val]
    ELSE With([fetched \in {ClientScript(w.chain, outpoint)} |->
           IF IsSome(fetched)
           THEN [w |-> [w EXCEPT !.script_cache =
                          ScriptCachePut(@, outpoint, Unwrap(fetched))],
                 val |-> fetched]
           ELSE [w |-> w, val |-> None]])])

\* a get_script_pubkey that forgets the cached entries when the node's reply is an error
get_script_pubkey_forgetful(w, outpoint, failing) ==
  With([hit \in {ScriptCacheGet(w.script_cache, outpoint)} |->
    IF IsSome(hit.val)
    THEN [w |-> [w EXCEPT !.script_cache = hit.sc], val |-> hit.val, err |-> FALSE]
    ELSE IF failing
         THEN [w |-> [w EXCEPT !.script_cache = ScriptCacheNew(@.max_bytes)],
               val |-> None, err |-> TRUE]
         ELSE With([got \in {get_script_pubkey(w, outpoint)} |->
                [w |-> got.w, val |-> got.val, err |-> FALSE]])])

\* ScriptCache::get_script_pubkey with the reply of the node as an input: when failing,
\* get_raw_transaction_info (or script()) returns an error, which the ? operator hands
\* to the caller (err); a hit returns before the node is asked
get_script_pubkey_rpc(w, outpoint, failing) ==
  With([hit \in {ScriptCacheGet(w.script_cache, outpoint)} |->
    IF IsSome(hit.val)
    THEN [w |-> [w EXCEPT !.script_cache = hit.sc], val |-> hit.val, err |-> FALSE]
    ELSE IF failing
         THEN [w |-> w, val |-> None, err |-> TRUE]
         ELSE With([got \in {get_script_pubkey(w, outpoint)} |->
                [w |-> got.w, val |-> got.val, err |-> FALSE]])])

----------------------------------------------------------------------------
(* authority.rs: CachedScript, AuthorityScripts, ScriptBloom, AuthorityContext *)

AUTHORITY_INPUT_LIMIT == 10

\* CachedScript::new
CachedScriptNew(compact) == [compact |-> compact, script |-> to_script(compact)]

\* CachedScript::size_bytes
CachedScriptSize(cs) ==
  Len(cs.compact.body) + (IF IsSome(cs.script) THEN Len(Unwrap(cs.script)) ELSE 0) + 16

\* AuthorityScripts::size_bytes; a slot is an Option<CachedScript>
AuthorityScriptsSize(scripts) ==
  SumSeq([i \in 1..3 |->
            IF IsSome(scripts[KindOrder[i]])
            THEN CachedScriptSize(Unwrap(scripts[KindOrder[i]])) ELSE 0])

NoScripts == [k \in {Mint, Blacklist, Master} |-> None]

RECURSIVE next_power_of_two_from(_, _)
next_power_of_two_from(n, p) == IF p >= n THEN p ELSE next_power_of_two_from(n, 2 * p)

next_power_of_two(n) == next_power_of_two_from(n, 1)

BloomMinBits == 64

BloomMaxBits == 1048576

\* ScriptBloom::new: the bit vector is modelled by the set of the indices of its set bits
ScriptBloomNew(entries) ==
  IF entries = 0 THEN None
  ELSE LET bit_count == Min(Max(next_power_of_two(entries) * 8, BloomMinBits), BloomMaxBits)
       IN Some([bits |-> {}, words |-> (bit_count + 63) \div 64, mask |-> bit_count - 1])

BloomSeedA == 0

\* 0x9e3779b97f4a7c15, of which only the bits under the largest mask (2^20 - 1) are kept
BloomSeedB == 293909

\* ScriptBloom::hash, masked. std's DefaultHasher is outside the repository: a
\* deterministic hash of (seed, data), which mixes every byte of data[lo..hi], stands
\* for it; the mask is a power of two minus one, so & mask is % (mask + 1).
RECURSIVE HashFrom(_, _, _, _)
HashFrom(seed, data, lo, hi) ==
  IF lo > hi THEN seed % BloomMaxBits
  ELSE IF lo = hi THEN (seed * 31 + data[lo] * 131 + lo) % BloomMaxBits
  ELSE LET mid == (lo + hi) \div 2
       IN (HashFrom(seed, data, lo, mid) * 31 + HashFrom(seed, data, mid + 1, hi) * 17)
            % BloomMaxBits

BloomHash(data, seed, bmask) ==
  HashFrom(seed % BloomMaxBits, data, 1, Len(data)) % (bmask + 1)

\* ScriptBloom::indices
BloomIndices(bloom, data) ==
  <<BloomHash(data, BloomSeedA, bloom.mask), BloomHash(data, BloomSeedB, bloom.mask)>>

\* ScriptBloom::set_bit: indices beyond the words are ignored
BloomSetBit(bloom, idx) ==
  IF idx \div 64 < bloom.words THEN [bloom EXCEPT !.bits = @ \cup {idx}] ELSE bloom

\* ScriptBloom::test_bit
BloomTestBit(bloom, idx) == idx \div 64 < bloom.words /\ idx \in bloom.bits

\* insert that sets the first of the two bits only
BloomInsertFirstBit(bloom, data) ==
  With([ab \in {BloomIndices(bloom, data)} |-> BloomSetBit(bloom, ab[1])])

\* ScriptBloom::insert
BloomInsert(bloom, data) ==
  With([ab \in {BloomIndices(bloom, data)} |->
    BloomSetBit(BloomSetBit(bloom, ab[1]), ab[2])])

\* ScriptBloom::might_contain
might_contain(bloom, data) ==
  With([ab \in {BloomIndices(bloom, data)} |->
    BloomTestBit(bloom, ab[1]) /\ BloomTestBit(bloom, ab[2])])

\* ScriptBloom::byte_size
BloomByteSize(bloom) == bloom.words * 8

SizeOfAuthorityBits == 1

SizeOfU128 == 16

\* AuthorityContext::size_bytes
ContextSize(ctx) ==
  SizeOfAuthorityBits
  + AuthorityScriptsSize(ctx.scripts)
  + SumSeq([i \in 1..Len(ctx.minters) |-> CachedScriptSize(ctx.minters[i])])
  + SumSeq([i \in 1..Len(ctx.blacklist) |-> CachedScriptSize(ctx.blacklist[i])])
  + (IF IsSome(ctx.blacklist_bloom) THEN BloomByteSize(Unwrap(ctx.blacklist_bloom)) ELSE 0)
  + SizeOfU128

----------------------------------------------------------------------------
(* authority.rs: AuthorityContextCache *)

\* AuthorityContextCache::new
ContextCacheNew(max_bytes) ==
  [contexts |-> EmptyMap, access_order |-> <<>>, max_bytes |-> max_bytes, current_bytes |-> 0]

\* invalidate that leaves the cached context in place
invalidate_nothing(cc, rune_id) == cc

\* AuthorityContextCache::invalidate
invalidate(cc, rune_id) ==
  IF Has(cc.contexts, rune_id)
  THEN [cc EXCEPT !.contexts = MapRemove(@, rune_id),
                  !.current_bytes = saturating_sub(@, ContextSize(cc.contexts[rune_id])),
                  !.access_order = SeqRemove(@, rune_id)]
  ELSE cc

\* AuthorityContextCache::update_supply_extra
update_supply_extra(cc, rune_id, value) ==
  IF Has(cc.contexts, rune_id)
  THEN [cc EXCEPT !.contexts[rune_id].supply_extra = value]
  ELSE cc

\* touch that pushes the id to the front without removing its earlier position
touch_without_retain(cc, rune_id) == [cc EXCEPT !.access_order = <<rune_id>> \o @]

\* AuthorityContextCache::touch
touch(cc, rune_id) == [cc EXCEPT !.access_order = <<rune_id>> \o SeqRemove(@, rune_id)]

\* an eviction loop that evicts nothing
ContextCacheKeepAll(cc, effective_max) == cc

\* the eviction loop of AuthorityContextCache::insert
RECURSIVE ContextCacheEvict(_, _)
ContextCacheEvict(cc, effective_max) ==
  IF cc.current_bytes > effective_max /\ cc.access_order # <<>>
  THEN LET oldest == cc.access_order[Len(cc.access_order)]
           rest == SubSeq(cc.access_order, 1, Len(cc.access_order) - 1)
       IN ContextCacheEvict(
            IF Has(cc.contexts, oldest)
            THEN [cc EXCEPT !.access_order = rest,
                            !.contexts = MapRemove(@, oldest),
                            !.current_bytes = saturating_sub(@, ContextSize(cc.contexts[oldest]))]
            ELSE [cc EXCEPT !.access_order = rest],
            effective_max)
  ELSE cc

\* insert that evicts down to the configured budget, whatever the size of the new entry
ContextCacheInsertToBudget(cc, rune_id, context, size) ==
  With([added \in {touch([cc EXCEPT !.current_bytes = @ + size,
                                    !.contexts = MapInsert(@, rune_id, context)], rune_id)} |->
    ContextCacheEvict(added, cc.max_bytes)])

\* AuthorityContextCache::insert
ContextCacheInsert(cc, rune_id, context, size) ==
  With([added \in {touch([cc EXCEPT !.current_bytes = @ + size,
                                    !.contexts = MapInsert(@, rune_id, context)], rune_id)} |->
    ContextCacheEvict(added, Max(cc.max_bytes, size))])

\* AuthorityContextCache::insert_and_get (the reference returned is the context)
insert_and_get(cc, rune_id, context) ==
  ContextCacheInsert(cc, rune_id, context, ContextSize(context))

\* AuthorityContextCache::get_existing
get_existing(cc, rune_id) == touch(cc, rune_id)

----------------------------------------------------------------------------
(* authority.rs: Authority *)

\* 0-based indexing of a byte string
At(bytes, i) == bytes[i + 1]

\* blob[from..to], 0-based and exclusive of to
Slice(bytes, from, to) == SubSeq(bytes, from + 1, to)

\* Authority::decode_compact_entry: Some(compact) or None
decode_compact_entry(entry_bytes) ==
  IF entry_bytes = <<>> THEN None
  ELSE LET kind == entry_bytes[1]
           body == Tail(entry_bytes)
       IN IF body = <<>> \/ Len(body) > 32 THEN None
          ELSE IF kind \notin {P2TR, P2WPKH, P2WSH} THEN None
          ELSE IF ~IsSome(to_script([kind |-> kind, body |-> body])) THEN None
          ELSE Some([kind |-> kind, body |-> body])

\* Authority::decode_entry_to_script: Some(script) or None
decode_entry_to_script(entry) ==
  With([compact \in {decode_compact_entry(entry)} |->
    IF IsSome(compact) THEN to_script(Unwrap(compact)) ELSE None])

\* the loop of Authority::decode_authority_scripts from slot k (1..3) at offset
RECURSIVE DecodeSlots(_, _, _, _, _)
DecodeSlots(blob, presence, k, offset, scripts) ==
  IF k > 3 THEN scripts
  ELSE IF ~contains(presence, KindOrder[k])
       THEN DecodeSlots(blob, presence, k + 1, offset, scripts)
  ELSE IF offset + 2 > Len(blob) THEN scripts
  ELSE LET kind == At(blob, offset)
           body_len == At(blob, offset + 1)
       IN IF body_len = 0 \/ body_len > 32 \/ offset + 2 + body_len > Len(blob)
          THEN scripts
          ELSE IF kind \notin {P2TR, P2WPKH, P2WSH}
               THEN DecodeSlots(blob, presence, k + 1, offset + 2 + body_len, scripts)
               ELSE DecodeSlots(blob, presence, k + 1, offset + 2 + body_len,
                      [scripts EXCEPT ![KindOrder[k]] =
                         Some(CachedScriptNew(
                           [kind |-> kind,
                            body |-> Slice(blob, offset + 2, offset + 2 + body_len)]))])

\* Authority::decode_authority_scripts: [scripts, presence]
decode_authority_scripts(w, rune_id) ==
  IF ~Has(w.rune_id_to_authority_scripts, rune_id)
  THEN [scripts |-> NoScripts, presence |-> 0]
  ELSE LET blob == w.rune_id_to_authority_scripts[rune_id]
       IN IF blob = <<>> THEN [scripts |-> NoScripts, presence |-> 0]
          ELSE [scripts |-> DecodeSlots(blob, from_bits_truncated(blob[1]), 1, 1, NoScripts),
                presence |-> from_bits_truncated(blob[1])]

\* the valid entries of a multimap row, decoded, in the order of the table
DecodeEntries(entries) ==
  With([valid \in {SelectSeq(SortBytes(entries),
                             LAMBDA e : IsSome(decode_compact_entry(e)))} |->
    [i \in 1..Len(valid) |-> CachedScriptNew(Unwrap(decode_compact_entry(valid[i])))]])

RECURSIVE BloomInsertAll(_, _, _)
BloomInsertAll(bloom, list, i) ==
  IF i > Len(list) THEN bloom
  ELSE BloomInsertAll(
         IF IsSome(list[i].script) THEN BloomInsert(bloom, Unwrap(list[i].script)) ELSE bloom,
         list, i + 1)

\* Authority::load_context
load_context(w, rune_id) ==
  With([stored \in {from_bits_truncated(MapGetOr(w.rune_id_to_authority_flags, rune_id, 0))} |->
  With([decoded \in {decode_authority_scripts(w, rune_id)} |->
  With([minter_list \in {DecodeEntries(MapGetOr(w.rune_id_to_minters, rune_id, {}))} |->
  With([black_list \in {DecodeEntries(MapGetOr(w.rune_id_to_blacklist, rune_id, {}))} |->
  With([empty_bloom \in {ScriptBloomNew(Len(black_list))} |->
    [flags |-> IF is_empty(stored) THEN decoded.presence ELSE stored,
     scripts |-> decoded.scripts,
     minters |-> minter_list,
     blacklist |-> black_list,
     blacklist_bloom |-> IF IsSome(empty_bloom)
                         THEN Some(BloomInsertAll(Unwrap(empty_bloom), black_list, 1))
                         ELSE None,
     supply_extra |-> MapGetOr(w.rune_id_to_supply_extra, rune_id, 0)]])])])])])

\* what a call of get_context handed out, appended to the record of the reads of the
\* transaction: the rune, and whether the flags, scripts, minters and blacklist of the
\* context are those of the tables at the time of the call
Observed(w, rune_id, context) ==
  [w EXCEPT !.reads =
     Append(@, [id |-> rune_id,
                current |-> With([tables \in {load_context(w, rune_id)} |->
                                    /\ context.flags = tables.flags
                                    /\ context.scripts = tables.scripts
                                    /\ context.minters = tables.minters
                                    /\ context.blacklist = tables.blacklist])])]

\* Authority::get_context: the cache is updated, val is the context handed out.
\* insert_and_get unwraps the entry it has just inserted: val is that context.
get_context(w, rune_id) ==
  IF Has(w.authority_cache.contexts, rune_id)
  THEN [w |-> Observed([w EXCEPT !.authority_cache = get_existing(@, rune_id)],
                       rune_id, w.authority_cache.contexts[rune_id]),
        val |-> w.authority_cache.contexts[rune_id]]
  ELSE With([context \in {load_context(w, rune_id)} |->
         [w |-> [w EXCEPT !.authority_cache = insert_and_get(@, rune_id, context),
                          !.reads = Append(@, [id |-> rune_id, current |-> TRUE])],
          val |-> context]])

\* the linear scan of Authority::is_blacklisted
BlacklistScan(context, script_pubkey) ==
  \E i \in 1..Len(context.blacklist) :
     /\ IsSome(context.blacklist[i].script)
     /\ script_pubkey = Unwrap(context.blacklist[i].script)

\* Authority::is_blacklisted
is_blacklisted(w, rune_id, script_pubkey) ==
  With([got \in {get_context(w, rune_id)} |->
    LET context == got.val
    IN [w |-> got.w,
        val |-> IF IsSome(context.blacklist_bloom)
                   /\ ~might_contain(Unwrap(context.blacklist_bloom), script_pubkey)
                THEN FALSE
                ELSE BlacklistScan(context, script_pubkey)]])

\* the body of the loop of Authority::first_matching_input for input i (1-based here):
\* val is TRUE when the input's prevout script resolves, is not blacklisted for the
\* rune and is one of candidates, the set of scripts the predicate accepts
InputMatches(w, tx, rune_id, candidates, i) ==
  With([fetched \in {get_script_pubkey(w, tx.input[i])} |->
    IF ~IsSome(fetched.val) THEN [w |-> fetched.w, val |-> FALSE]
    ELSE With([black \in {is_blacklisted(fetched.w, rune_id, Unwrap(fetched.val))} |->
           [w |-> black.w,
            val |-> ~black.val /\ Unwrap(fetched.val) \in candidates]])])

\* Authority::first_matching_input from input i (1-based here): val is Some(index) or
\* None
RECURSIVE FirstMatchFrom(_, _, _, _, _)
FirstMatchFrom(w, tx, rune_id, candidates, i) ==
  IF i > Len(tx.input) \/ i > AUTHORITY_INPUT_LIMIT THEN [w |-> w, val |-> None]
  ELSE With([step \in {InputMatches(w, tx, rune_id, candidates, i)} |->
         IF step.val THEN [w |-> step.w, val |-> Some(i - 1)]
         ELSE FirstMatchFrom(step.w, tx, rune_id, candidates, i + 1)])

\* first_matching_input scanning every input of the transaction
RECURSIVE FirstMatchUnlimited(_, _, _, _, _)
FirstMatchUnlimited(w, tx, rune_id, candidates, i) ==
  IF i > Len(tx.input) THEN [w |-> w, val |-> None]
  ELSE With([step \in {InputMatches(w, tx, rune_id, candidates, i)} |->
         IF step.val THEN [w |-> step.w, val |-> Some(i - 1)]
         ELSE FirstMatchUnlimited(step.w, tx, rune_id, candidates, i + 1)])

first_matching_input_unlimited(w, tx, rune_id, candidates) ==
  FirstMatchUnlimited(w, tx, rune_id, candidates, 1)

first_matching_input(w, tx, rune_id, candidates) ==
  FirstMatchFrom(w, tx, rune_id, candidates, 1)

\* what a call of check_authority saw and returned, appended to the record of the
\* calls of the transaction: the slot of the context, the blacklist rows of the rune
\* in the table at the time of the call, and the value returned
Checked(w0, w, rune_id, authority_type, slot, val) ==
  [w EXCEPT !.checks = Append(@, [id |-> rune_id, kind |-> authority_type, slot |-> slot,
                                  blacklist |-> MapGetOr(w0.rune_id_to_blacklist, rune_id, {}),
                                  val |-> val])]

\* check_authority that expects the script of the Master slot for every kind
check_authority_of_master(w, tx, rune_id, authority_type) ==
  With([got \in {get_context(w, rune_id)} |->
    LET slot == got.val.scripts[Master]
    IN IF ~IsSome(slot)
       THEN [w |-> Checked(w, got.w, rune_id, authority_type, slot, FALSE), val |-> FALSE]
       ELSE IF ~IsSome(Unwrap(slot).script)
            THEN [w |-> Checked(w, got.w, rune_id, authority_type, slot, FALSE),
                  val |-> FALSE]
            ELSE With([found \in {first_matching_input(got.w, tx, rune_id,
                                                       {Unwrap(Unwrap(slot).script)})} |->
                   [w |-> Checked(w, found.w, rune_id, authority_type, slot,
                                  IsSome(found.val)),
                    val |-> IsSome(found.val)]])])

\* Authority::check_authority
check_authority(w, tx, rune_id, authority_type) ==
  With([got \in {get_context(w, rune_id)} |->
    LET slot == got.val.scripts[authority_type]
    IN IF ~IsSome(slot)
       THEN [w |-> Checked(w, got.w, rune_id, authority_type, slot, FALSE), val |-> FALSE]
       ELSE IF ~IsSome(Unwrap(slot).script)
            THEN [w |-> Checked(w, got.w, rune_id, authority_type, slot, FALSE),
                  val |-> FALSE]
            ELSE With([found \in {first_matching_input(got.w, tx, rune_id,
                                                       {Unwrap(Unwrap(slot).script)})} |->
                   [w |-> Checked(w, found.w, rune_id, authority_type, slot,
                                  IsSome(found.val)),
                    val |-> IsSome(found.val)]])])

\* Authority::check_is_minter
check_is_minter(w, tx, rune_id) ==
  With([master \in {check_authority(w, tx, rune_id, Master)} |->
    IF master.val THEN [w |-> master.w, val |-> TRUE]
    ELSE With([got \in {get_context(master.w, rune_id)} |->
           IF got.val.minters = <<>> THEN [w |-> got.w, val |-> FALSE]
           ELSE With([found \in {first_matching_input(
                                   got.w, tx, rune_id,
                                   {Unwrap(got.val.minters[i].script) :
                                      i \in {j \in 1..Len(got.val.minters) :
                                               IsSome(got.val.minters[j].script)}})} |->
                  [w |-> found.w, val |-> IsSome(found.val)]])])])

\* Authority::get_authority_script: val is Some(compact) or None
get_authority_script(w, rune_id, authority_type) ==
  With([got \in {get_context(w, rune_id)} |->
    LET slot == got.val.scripts[authority_type]
    IN [w |-> got.w, val |-> IF IsSome(slot) THEN Some(Unwrap(slot).compact) ELSE None]])

\* Authority::get_supply_extra
get_supply_extra(w, rune_id) ==
  With([got \in {get_context(w, rune_id)} |-> [w |-> got.w, val |-> got.val.supply_extra]])

\* set_supply_extra that updates the cached context and not the table
set_supply_extra_cached_only(w, rune_id, value) ==
  IF value = 0 THEN w
  ELSE [w EXCEPT !.authority_cache = update_supply_extra(@, rune_id, value)]

\* set_supply_extra that also writes a row for the value 0
set_supply_extra_writes_zero(w, rune_id, value) ==
  [w EXCEPT !.rune_id_to_supply_extra = MapInsert(@, rune_id, value),
            !.authority_cache = update_supply_extra(@, rune_id, value)]

\* Authority::set_supply_extra
set_supply_extra(w, rune_id, value) ==
  IF value = 0 THEN w
  ELSE [w EXCEPT !.rune_id_to_supply_extra = MapInsert(@, rune_id, value),
                 !.authority_cache = update_supply_extra(@, rune_id, value)]

----------------------------------------------------------------------------
(* allocation.rs: Allocation *)

\* *map.entry(id).or_default() += amount
AddLot(m, id, amount) == MapInsert(m, id, MapGetOr(m, id, 0) + amount)

\* the closure of index_runes when no prevout is ever reported as blacklisted
PrevoutNeverBlacklisted(w, id, outpoint) ==
  With([fetched \in {get_script_pubkey(w, outpoint)} |-> [w |-> fetched.w, val |-> FALSE]])

\* the closure index_runes hands to calculate_unallocated
PrevoutBlacklisted(w, id, outpoint) ==
  With([fetched \in {get_script_pubkey(w, outpoint)} |->
    IF IsSome(fetched.val)
    THEN is_blacklisted(fetched.w, id, Unwrap(fetched.val))
    ELSE [w |-> fetched.w, val |-> FALSE]])

\* the while loop over one removed row: a is [w, unallocated, locked]
RECURSIVE PartitionRow(_, _, _, _)
PartitionRow(a, row, outpoint, i) ==
  IF i > Len(row) THEN a
  ELSE With([black \in {PrevoutBlacklisted(a.w, row[i][1], outpoint)} |->
       With([next \in {IF black.val
                       THEN [a EXCEPT !.w = black.w, !.locked = Append(@, row[i])]
                       ELSE [a EXCEPT !.w = black.w,
                                      !.unallocated = AddLot(@, row[i][1], row[i][2])]} |->
         PartitionRow(next, row, outpoint, i + 1)])])

\* the for loop over the inputs: a is [w, unallocated, locked]; locked is reset per input
RECURSIVE UnallocatedFrom(_, _, _)
UnallocatedFrom(a, tx, i) ==
  IF i > Len(tx.input) THEN a
  ELSE LET key == tx.input[i]
       IN IF ~Has(a.w.outpoint_to_balances, key)
          THEN UnallocatedFrom(a, tx, i + 1)
          ELSE With([parted \in {PartitionRow(
                                   [a EXCEPT !.w.outpoint_to_balances = MapRemove(@, key),
                                             !.locked = <<>>],
                                   a.w.outpoint_to_balances[key], key, 1)} |->
               With([next \in {IF parted.locked = <<>> THEN parted
                               ELSE [parted EXCEPT
                                       !.w.outpoint_to_balances =
                                          MapInsert(@, key, parted.locked)]} |->
                 UnallocatedFrom(next, tx, i + 1)])])

\* Allocation::calculate_unallocated: [w, val], val the unallocated map
calculate_unallocated(w, tx) ==
  With([a \in {UnallocatedFrom([w |-> w, unallocated |-> EmptyMap, locked |-> <<>>],
                               tx, 1)} |->
    [w |-> a.w, val |-> a.unallocated]])

----------------------------------------------------------------------------
(* executor.rs: Executor *)

\* Executor::has_blacklist_flag
\* has_blacklist_flag that asks whether the rune has a Blacklist authority script
has_blacklist_flag_of_slot(w, id) ==
  With([got \in {get_context(w, id)} |->
    [w |-> got.w, val |-> IsSome(got.val.scripts[Blacklist])]])

has_blacklist_flag(w, id) ==
  With([got \in {get_context(w, id)} |->
    [w |-> got.w, val |-> contains(got.val.flags, Blacklist)]])

\* has_mint_flag that reports the flag for every rune
has_mint_flag_always(w, id) ==
  With([got \in {get_context(w, id)} |-> [w |-> got.w, val |-> TRUE]])

\* Executor::has_mint_flag
has_mint_flag(w, id) ==
  With([got \in {get_context(w, id)} |->
    [w |-> got.w, val |-> contains(got.val.flags, Mint)]])

\* append_script that writes the new script of a requested kind and does not step over
\* the script the kind had in the existing blob
append_script_in_place(m, kind, authorities, existing_blob, existing_presence, presence, compact, compact_body_len) ==
  IF ~contains(presence, kind) THEN m
  ELSE IF contains(authorities, kind)
       THEN [blob |-> m.blob \o <<compact.kind, compact_body_len>> \o compact.body,
             offset |-> m.offset]
       ELSE IF contains(existing_presence, kind) /\ m.offset + 1 < Len(existing_blob)
            THEN LET body_len == At(existing_blob, m.offset + 1)
                 IN IF m.offset + 2 + body_len <= Len(existing_blob)
                    THEN [blob |-> m.blob \o Slice(existing_blob, m.offset,
                                                   m.offset + 2 + body_len),
                          offset |-> m.offset + 2 + body_len]
                    ELSE m
            ELSE m

\* the closure append_script of merge_authority_scripts: m is [blob, offset]
append_script(m, kind, authorities, existing_blob, existing_presence, presence, compact, compact_body_len) ==
  IF ~contains(presence, kind) THEN m
  ELSE IF contains(authorities, kind)
       THEN [blob |-> m.blob \o <<compact.kind, compact_body_len>> \o compact.body,
             offset |-> IF contains(existing_presence, kind)
                           /\ m.offset + 1 < Len(existing_blob)
                        THEN m.offset + 2 + At(existing_blob, m.offset + 1)
                        ELSE m.offset]
       ELSE IF contains(existing_presence, kind) /\ m.offset + 1 < Len(existing_blob)
            THEN LET body_len == At(existing_blob, m.offset + 1)
                 IN IF m.offset + 2 + body_len <= Len(existing_blob)
                    THEN [blob |-> m.blob \o Slice(existing_blob, m.offset,
                                                   m.offset + 2 + body_len),
                          offset |-> m.offset + 2 + body_len]
                    ELSE m
            ELSE m

\* Executor::merge_authority_scripts
merge_authority_scripts(authorities, existing_blob, existing_presence, presence, compact, compact_body_len) ==
  LET m0 == [blob |-> <<presence % 8>>, offset |-> 1]
      m1 == append_script(m0, Mint, authorities, existing_blob, existing_presence,
                          presence, compact, compact_body_len)
      m2 == append_script(m1, Blacklist, authorities, existing_blob, existing_presence,
                          presence, compact, compact_body_len)
      m3 == append_script(m2, Master, authorities, existing_blob, existing_presence,
                          presence, compact, compact_body_len)
  IN m3.blob

\* the kinds of a SetAuthority checked so that one passing kind is enough
RECURSIVE CheckAnyKindFrom(_, _, _, _, _)
CheckAnyKindFrom(r, tx, id, ks, i) ==
  IF i > Len(ks) THEN r
  ELSE With([c \in {check_authority(r.w, tx, id, ks[i])} |->
         CheckAnyKindFrom([w |-> c.w, val |-> r.val \/ c.val], tx, id, ks, i + 1)])

CheckAnyKind(r, tx, id, ks, i) ==
  CheckAnyKindFrom([r EXCEPT !.val = FALSE], tx, id, ks, i)

\* authorized &= check_authority(tx, id, kind) over the kinds, none skipped
RECURSIVE CheckAllKinds(_, _, _, _, _)
CheckAllKinds(r, tx, id, ks, i) ==
  IF i > Len(ks) THEN r
  ELSE With([c \in {check_authority(r.w, tx, id, ks[i])} |->
         CheckAllKinds([w |-> c.w, val |-> r.val /\ c.val], tx, id, ks, i + 1)])

RECURSIVE InsertKinds(_, _, _)
InsertKinds(bits, ks, i) ==
  IF i > Len(ks) THEN bits ELSE InsertKinds(insert(bits, ks[i]), ks, i + 1)

\* Executor::process_set_authority: [w, authorities, authorized], the last two being
\* the filtered set and the outcome of the authorization (FALSE when it was not reached)
process_set_authority(w, tx, set_authority, target_rune_id) ==
  LET requested == from_bits_truncated(set_authority.authorities)
  IN With([flagged \in {IF contains(requested, Blacklist)
                        THEN has_blacklist_flag(w, target_rune_id)
                        ELSE [w |-> w, val |-> TRUE]} |->
       LET authorities == IF contains(requested, Blacklist) /\ ~flagged.val
                          THEN BitsWithout(requested, Blacklist)
                          ELSE requested
       IN IF is_empty(authorities)
          THEN [w |-> flagged.w, authorities |-> authorities, authorized |-> FALSE]
          ELSE With([checked \in {CheckAllKinds([w |-> flagged.w, val |-> TRUE], tx,
                                                target_rune_id, kinds(authorities), 1)} |->
            IF ~checked.val
            THEN [w |-> checked.w, authorities |-> authorities, authorized |-> FALSE]
            ELSE With([master \in {get_authority_script(checked.w, target_rune_id,
                                                        Master)} |->
                 With([existing_blob \in {MapGetOr(master.w.rune_id_to_authority_scripts,
                                                   target_rune_id, <<0>>)} |->
                 With([existing_presence \in
                         {from_bits_truncated(IF existing_blob = <<>> THEN 0
                                              ELSE existing_blob[1])} |->
                   LET default_kind == IF IsSome(master.val) THEN Unwrap(master.val).kind
                                       ELSE P2TR
                       compact == [kind |-> default_kind,
                                   body |-> set_authority.script_pubkey_compact]
                       compact_body_len == Len(compact.body)
                       flags == InsertKinds(
                                  from_bits_truncated(
                                    MapGetOr(master.w.rune_id_to_authority_flags,
                                             target_rune_id, 0)),
                                  kinds(authorities), 1)
                       presence == InsertKinds(existing_presence, kinds(authorities), 1)
                       scripts_blob == merge_authority_scripts(
                                         authorities, existing_blob, existing_presence,
                                         presence, compact, compact_body_len)
                   IN [w |-> [master.w EXCEPT
                                !.rune_id_to_authority_flags =
                                   MapInsert(@, target_rune_id, flags),
                                !.rune_id_to_authority_scripts =
                                   MapInsert(@, target_rune_id, scripts_blob),
                                !.authority_cache = invalidate(@, target_rune_id)],
                       authorities |-> authorities,
                       authorized |-> TRUE]])])])])])


\* MultimapTable::insert
MultimapInsert(m, k, v) == MapInsert(m, k, MapGetOr(m, k, {}) \cup {v})

\* MultimapTable::remove: a key without values is absent
MultimapRemove(m, k, v) ==
  IF ~Has(m, k) THEN m
  ELSE IF m[k] \ {v} = {} THEN MapRemove(m, k)
  ELSE MapInsert(m, k, m[k] \ {v})

\* apply_entries with the add_minter closure: r is [w, changed]
RECURSIVE ApplyAddMinter(_, _, _, _)
ApplyAddMinter(r, entries, id, i) ==
  IF i > Len(entries) THEN r
  ELSE ApplyAddMinter(
         IF entries[i] = <<>> THEN r
         ELSE [w |-> [r.w EXCEPT !.rune_id_to_minters = MultimapInsert(@, id, entries[i])],
               changed |-> TRUE],
         entries, id, i + 1)

\* apply_entries with the remove_minter closure
RECURSIVE ApplyRemoveMinter(_, _, _, _)
ApplyRemoveMinter(r, entries, id, i) ==
  IF i > Len(entries) THEN r
  ELSE ApplyRemoveMinter(
         IF entries[i] = <<>> THEN r
         ELSE [w |-> [r.w EXCEPT !.rune_id_to_minters = MultimapRemove(@, id, entries[i])],
               changed |-> TRUE],
         entries, id, i + 1)

\* apply_entries with the blacklist closure: r is [w, changed, seen_entries]
RECURSIVE ApplyBlacklist(_, _, _, _)
ApplyBlacklist(r, entries, id, i) ==
  IF i > Len(entries) THEN r
  ELSE With([script \in {decode_entry_to_script(entries[i])} |->
       With([next \in {IF entries[i] = <<>> THEN r
                       ELSE IF entries[i] \in r.seen_entries THEN r
                       ELSE IF ~IsSome(script) THEN r
                       ELSE With([black \in {is_blacklisted(r.w, id, Unwrap(script))} |->
                              IF black.val THEN [r EXCEPT !.w = black.w]
                              ELSE [w |-> [black.w EXCEPT
                                             !.rune_id_to_blacklist =
                                                MultimapInsert(@, id, entries[i])],
                                    changed |-> TRUE,
                                    seen_entries |-> r.seen_entries \cup {entries[i]}]])} |->
         ApplyBlacklist(next, entries, id, i + 1)])])

\* apply_entries with the unblacklist closure
RECURSIVE ApplyUnblacklist(_, _, _, _)
ApplyUnblacklist(r, entries, id, i) ==
  IF i > Len(entries) THEN r
  ELSE ApplyUnblacklist(
         IF entries[i] = <<>> THEN r
         ELSE [w |-> [r.w EXCEPT !.rune_id_to_blacklist = MultimapRemove(@, id, entries[i])],
               changed |-> TRUE],
         entries, id, i + 1)

\* Executor::process_authority_updates: [w, master_ok, blacklist_ok], the last two
\* being the outcomes of the two gates (FALSE when a gate was not evaluated).
\* Each of the four lists of authority_updates is an Option of a sequence of entries.
process_authority_updates(w, tx, authority_updates, target_rune_id) ==
  LET master_updates_present ==
        IsSome(authority_updates.add_minter) \/ IsSome(authority_updates.remove_minter)
      has_blacklist_requests ==
        IsSome(authority_updates.blacklist) \/ IsSome(authority_updates.unblacklist)
  IN With([master \in {IF master_updates_present
                       THEN check_authority(w, tx, target_rune_id, Master)
                       ELSE [w |-> w, val |-> FALSE]} |->
     With([r1 \in {IF master.val /\ IsSome(authority_updates.add_minter)
                   THEN ApplyAddMinter([w |-> master.w, changed |-> FALSE],
                                       Unwrap(authority_updates.add_minter),
                                       target_rune_id, 1)
                   ELSE [w |-> master.w, changed |-> FALSE]} |->
     With([r2 \in {IF master.val /\ IsSome(authority_updates.remove_minter)
                   THEN ApplyRemoveMinter(r1, Unwrap(authority_updates.remove_minter),
                                          target_rune_id, 1)
                   ELSE r1} |->
     With([allow_blacklisting \in {has_blacklist_flag(r2.w, target_rune_id)} |->
     With([blacklist_authorized \in
             {IF allow_blacklisting.val /\ has_blacklist_requests
              THEN check_authority(allow_blacklisting.w, tx, target_rune_id, Blacklist)
              ELSE [w |-> allow_blacklisting.w, val |-> FALSE]} |->
     With([r4 \in {IF IsSome(authority_updates.blacklist) /\ allow_blacklisting.val
                      /\ blacklist_authorized.val
                   THEN ApplyBlacklist([w |-> blacklist_authorized.w,
                                        changed |-> r2.changed, seen_entries |-> {}],
                                       Unwrap(authority_updates.blacklist),
                                       target_rune_id, 1)
                   ELSE [w |-> blacklist_authorized.w, changed |-> r2.changed,
                         seen_entries |-> {}]} |->
     With([r5 \in {IF IsSome(authority_updates.unblacklist) /\ allow_blacklisting.val
                      /\ blacklist_authorized.val
                   THEN ApplyUnblacklist([w |-> r4.w, changed |-> r4.changed],
                                         Unwrap(authority_updates.unblacklist),
                                         target_rune_id, 1)
                   ELSE [w |-> r4.w, changed |-> r4.changed]} |->
       [w |-> IF r5.changed
              THEN [r5.w EXCEPT !.authority_cache = invalidate(@, target_rune_id)]
              ELSE r5.w,
        master_ok |-> master.val,
        blacklist_ok |-> blacklist_authorized.val]])])])])])])])

\* the closure allocate when the destination is never looked up in the blacklist
allocate_unchecked(e, tx, id, amount, output) ==
  IF amount > 0
  THEN With([done \in {[e EXCEPT !.unallocated[id] = @ - amount,
                                 !.allocated[output + 1] = AddLot(@, id, amount)]} |->
         [done EXCEPT !.steps =
            Append(@, [output |-> output, amount |-> amount,
                       unallocated_before |-> e.unallocated[id],
                       unallocated_after |-> done.unallocated[id],
                       allocated_before |-> MapGetOr(e.allocated[output + 1], id, 0),
                       allocated_after |-> MapGetOr(done.allocated[output + 1], id, 0)])]])
  ELSE e

\* the closure allocate of process_edicts: e is [w, unallocated, allocated, steps, log];
\* output is the 0-based index of the destination. steps records each call with a
\* positive amount: the destination, the amount, and unallocated[id] and
\* allocated[output][id] before and after the call.
allocate(e, tx, id, amount, output) ==
  IF amount > 0
  THEN With([black \in {is_blacklisted(e.w, id, tx.output[output + 1])} |->
       With([done \in {IF black.val
                       THEN [e EXCEPT !.w = black.w]
                       ELSE [e EXCEPT !.w = black.w,
                                      !.unallocated[id] = @ - amount,
                                      !.allocated[output + 1] = AddLot(@, id, amount)]} |->
         [done EXCEPT !.steps =
            Append(@, [output |-> output, amount |-> amount,
                       unallocated_before |-> e.unallocated[id],
                       unallocated_after |-> done.unallocated[id],
                       allocated_before |-> MapGetOr(e.allocated[output + 1], id, 0),
                       allocated_after |-> MapGetOr(done.allocated[output + 1], id, 0)])]])])
  ELSE e

\* the 0-based indices of the outputs that are not OP_RETURN, ascending
Destinations(tx) ==
  LET idx == SelectSeq([i \in 1..Len(tx.output) |-> i],
                       LAMBDA i : ~is_op_return(tx.output[i]))
  IN [i \in 1..Len(idx) |-> idx[i] - 1]

\* distribute with amount == 0 that gives the extra units to the last destinations
RECURSIVE DistributeEvenLast(_, _, _, _, _, _, _)
DistributeEvenLast(e, tx, id, destinations, amount_per_out, remainder, i) ==
  IF i > Len(destinations) THEN e
  ELSE With([next \in {allocate(e, tx, id,
                                IF Len(destinations) - i < remainder
                                THEN amount_per_out + 1
                                ELSE amount_per_out,
                                destinations[i])} |->
         DistributeEvenLast(next, tx, id, destinations, amount_per_out, remainder, i + 1)])

\* distribute with amount == 0: the shares are fixed before the first allocation
RECURSIVE DistributeEven(_, _, _, _, _, _, _)
DistributeEven(e, tx, id, destinations, amount_per_out, remainder, i) ==
  IF i > Len(destinations) THEN e
  ELSE With([next \in {allocate(e, tx, id,
                                IF i - 1 < remainder THEN amount_per_out + 1
                                ELSE amount_per_out,
                                destinations[i])} |->
         DistributeEven(next, tx, id, destinations, amount_per_out, remainder, i + 1)])

\* distribute with amount > 0: each destination gets min(amount, what is left)
RECURSIVE DistributeEach(_, _, _, _, _, _)
DistributeEach(e, tx, id, destinations, amount, i) ==
  IF i > Len(destinations) THEN e
  ELSE With([next \in {allocate(e, tx, id, Min(amount, e.unallocated[id]),
                                destinations[i])} |->
         DistributeEach(next, tx, id, destinations, amount, i + 1)])

ZeroId == <<0, 0>>

\* the number of bits of an amount: the width of u128, scaled down to what the
\* integers of the model checker hold
AmountBits == 16

\* u128::MAX
U128_MAX == 2^AmountBits - 1

\* current_extra + delta.n() in u128: a sum beyond u128::MAX overflows, which panics in
\* a build with overflow checks and wraps in a build without; the overflow is noted
\* in w.checks and the sum is taken modulo 2^AmountBits
Overflowed(w, id, sum) ==
  IF sum > U128_MAX
  THEN [w EXCEPT !.checks = Append(@, [kind |-> "Overflow", id |-> id, val |-> sum])]
  ELSE w

\* one iteration of the loop of Executor::process_edicts; etched is an Option of
\* [id, rune]
ProcessEdict(e, tx, etched, edict) ==
  IF edict.output > Len(tx.output) THEN e
  ELSE IF edict.id = ZeroId /\ ~IsSome(etched) THEN e
  ELSE
    LET id == IF edict.id = ZeroId THEN Unwrap(etched).id ELSE edict.id
        amount == edict.amount
        output == edict.output
        balance0 == MapGetOr(e.unallocated, id, 0)
    IN With([flag \in {has_mint_flag(e.w, id)} |->
       With([check_auth \in {IF flag.val THEN check_authority(flag.w, tx, id, Mint)
                             ELSE [w |-> flag.w, val |-> FALSE]} |->
       With([check_minter \in {IF flag.val THEN check_is_minter(check_auth.w, tx, id)
                               ELSE [w |-> check_auth.w, val |-> FALSE]} |->
       With([delta \in {IF flag.val /\ (check_auth.val \/ check_minter.val)
                           /\ amount > balance0
                        THEN amount - balance0 ELSE 0} |->
       With([e1 \in {[e EXCEPT
                        !.w = IF delta > 0
                              THEN With([current_extra \in
                                           {get_supply_extra(check_minter.w, id)} |->
                                     set_supply_extra(
                                       Overflowed(current_extra.w, id,
                                                  current_extra.val + delta),
                                       id,
                                       (current_extra.val + delta) % (U128_MAX + 1))])
                              ELSE check_minter.w,
                        !.unallocated = MapInsert(@, id, balance0 + delta),
                        !.steps = <<>>]} |->
       With([destinations \in {Destinations(tx)} |->
       With([e2 \in {IF output = Len(tx.output)
                     THEN IF destinations = <<>> THEN e1
                          ELSE IF amount = 0
                               THEN DistributeEven(e1, tx, id, destinations,
                                                   (balance0 + delta) \div Len(destinations),
                                                   (balance0 + delta) % Len(destinations), 1)
                               ELSE DistributeEach(e1, tx, id, destinations, amount, 1)
                     ELSE allocate(e1, tx, id,
                                   IF amount = 0 THEN balance0 + delta
                                   ELSE Min(amount, balance0 + delta),
                                   output)} |->
         [e2 EXCEPT !.log = Append(@, [id |-> id, amount |-> amount, output |-> output,
                                       balance |-> balance0,
                                       has_mint_flag |-> flag.val,
                                       check_auth |-> check_auth.val,
                                       check_minter |-> check_minter.val,
                                       delta |-> delta,
                                       raised |-> e1.unallocated[id],
                                       left |-> e2.unallocated[id],
                                       steps |-> e2.steps])]])])])])])])])

\* the loop of process_edicts that stops after the first edict
RECURSIVE EdictsFirstOnly(_, _, _, _, _)
EdictsFirstOnly(e, tx, etched, edicts, i) ==
  IF i > Len(edicts) \/ i > 1 THEN e
  ELSE With([next \in {ProcessEdict(e, tx, etched, edicts[i])} |->
         EdictsFirstOnly(next, tx, etched, edicts, i + 1)])

\* Executor::process_edicts
RECURSIVE EdictsFrom(_, _, _, _, _)
EdictsFrom(e, tx, etched, edicts, i) ==
  IF i > Len(edicts) THEN e
  ELSE With([next \in {ProcessEdict(e, tx, etched, edicts[i])} |->
         EdictsFrom(next, tx, etched, edicts, i + 1)])

process_edicts(w, tx, runestone, etched, unallocated, allocated) ==
  EdictsFrom([w |-> w, unallocated |-> unallocated, allocated |-> allocated,
              steps |-> <<>>, log |-> <<>>],
             tx, etched, runestone.edicts, 1)

\* a target of SetAuthority that prefers the mint field to the first edict
SetAuthorityTargetMintFirst(runestone, etched) ==
  IF IsSome(runestone.mint) THEN runestone.mint
  ELSE IF runestone.edicts # <<>> /\ runestone.edicts[1].id # ZeroId
       THEN Some(runestone.edicts[1].id)
  ELSE IF IsSome(etched) THEN Some(Unwrap(etched).id)
  ELSE None

\* the target of SetAuthority in process_runestone: Some(id) or None
SetAuthorityTarget(runestone, etched) ==
  LET from_edict ==
        IF runestone.edicts = <<>> THEN None
        ELSE IF runestone.edicts[1].id = ZeroId
             THEN (IF IsSome(etched) THEN Some(Unwrap(etched).id) ELSE None)
             ELSE Some(runestone.edicts[1].id)
  IN IF IsSome(from_edict) THEN from_edict
     ELSE IF IsSome(runestone.mint) THEN runestone.mint
     ELSE IF IsSome(etched) THEN Some(Unwrap(etched).id)
     ELSE None

\* the target of AuthorityUpdates in process_runestone: Some(id) or None
AuthorityUpdatesTarget(runestone, etched) ==
  IF IsSome(runestone.mint) THEN runestone.mint
  ELSE IF IsSome(etched) THEN Some(Unwrap(etched).id)
  ELSE None

NoSetAuthority == [target |-> None, authorities |-> 0, authorized |-> FALSE]

NoUpdates == [target |-> None, master_ok |-> FALSE, blacklist_ok |-> FALSE]

\* process_runestone with the AuthorityUpdates processed before the SetAuthority
process_runestone_updates_first(w, tx, runestone, etched, unallocated, allocated) ==
  With([sa_target \in {SetAuthorityTarget(runestone, etched)} |->
  With([au_target \in {AuthorityUpdatesTarget(runestone, etched)} |->
  With([au \in {IF IsSome(runestone.authority) /\ IsSome(au_target)
                THEN process_authority_updates(w, tx, Unwrap(runestone.authority),
                                               Unwrap(au_target))
                ELSE [w |-> w, master_ok |-> FALSE, blacklist_ok |-> FALSE]} |->
  With([sa \in {IF IsSome(runestone.set_authority) /\ IsSome(sa_target)
                THEN process_set_authority(au.w, tx, Unwrap(runestone.set_authority),
                                           Unwrap(sa_target))
                ELSE [w |-> au.w, authorities |-> 0, authorized |-> FALSE]} |->
  With([e \in {process_edicts(sa.w, tx, runestone, etched, unallocated, allocated)} |->
    [w |-> e.w, unallocated |-> e.unallocated, allocated |-> e.allocated,
     set_authority |-> IF IsSome(runestone.set_authority) /\ IsSome(sa_target)
                       THEN [target |-> sa_target, authorities |-> sa.authorities,
                             authorized |-> sa.authorized]
                       ELSE NoSetAuthority,
     updates |-> IF IsSome(runestone.authority) /\ IsSome(au_target)
                 THEN [target |-> au_target, master_ok |-> au.master_ok,
                       blacklist_ok |-> au.blacklist_ok]
                 ELSE NoUpdates,
     log |-> e.log]])])])])])

\* Executor::process_runestone: [w, unallocated, allocated] and what the three steps
\* did: set_authority, updates (see NoSetAuthority, NoUpdates) and the edict log
process_runestone(w, tx, runestone, etched, unallocated, allocated) ==
  With([sa_target \in {SetAuthorityTarget(runestone, etched)} |->
  With([sa \in {IF IsSome(runestone.set_authority) /\ IsSome(sa_target)
                THEN process_set_authority(w, tx, Unwrap(runestone.set_authority),
                                           Unwrap(sa_target))
                ELSE [w |-> w, authorities |-> 0, authorized |-> FALSE]} |->
  With([au_target \in {AuthorityUpdatesTarget(runestone, etched)} |->
  With([au \in {IF IsSome(runestone.authority) /\ IsSome(au_target)
                THEN process_authority_updates(sa.w, tx, Unwrap(runestone.authority),
                                               Unwrap(au_target))
                ELSE [w |-> sa.w, master_ok |-> FALSE, blacklist_ok |-> FALSE]} |->
  With([e \in {process_edicts(au.w, tx, runestone, etched, unallocated, allocated)} |->
    [w |-> e.w, unallocated |-> e.unallocated, allocated |-> e.allocated,
     set_authority |-> IF IsSome(runestone.set_authority) /\ IsSome(sa_target)
                       THEN [target |-> sa_target, authorities |-> sa.authorities,
                             authorized |-> sa.authorized]
                       ELSE NoSetAuthority,
     updates |-> IF IsSome(runestone.authority) /\ IsSome(au_target)
                 THEN [target |-> au_target, master_ok |-> au.master_ok,
                       blacklist_ok |-> au.blacklist_ok]
                 ELSE NoUpdates,
     log |-> e.log]])])])])])

----------------------------------------------------------------------------
(* mod.rs: RuneUpdater *)

\* self.height, the height of the block being indexed
Height == 7

\* Rune::reserved and Rune::is_reserved: the names from ReservedBase on are reserved,
\* one per (height, tx index); within one block the tx index tells them apart
ReservedBase == 1000

RuneReserved(height, index) == ReservedBase + index

RuneIsReserved(rune) == rune >= ReservedBase

\* self.minimum, the lowest name that can be etched at this height
MinimumRune == 1

\* RuneEntry::mintable: Some(amount) or None. The terms allow a mint while the number
\* of mints is below the cap (an absent cap is 0); the amount defaults to 0.
mintable(entry) ==
  IF ~IsSome(entry.terms) THEN None
  ELSE LET terms == Unwrap(entry.terms)
           cap == IF IsSome(terms.cap) THEN Unwrap(terms.cap) ELSE 0
       IN IF entry.mints >= cap THEN None
          ELSE Some(IF IsSome(terms.amount) THEN Unwrap(terms.amount) ELSE 0)

\* RuneUpdater::mint: [w, val], val Some(amount) or None
mint(w, id) ==
  IF ~Has(w.id_to_entry, id) THEN [w |-> w, val |-> None]
  ELSE LET amount == mintable(w.id_to_entry[id])
       IN IF ~IsSome(amount) THEN [w |-> w, val |-> None]
          ELSE [w |-> [w EXCEPT !.id_to_entry[id].mints = @ + 1], val |-> amount]

\* RuneUpdater::process_mint: [w, unallocated, minted], minted Some(<<id, amount>>) or None
process_mint(w, artifact, unallocated) ==
  IF ~IsSome(artifact.mint)
  THEN [w |-> w, unallocated |-> unallocated, minted |-> None]
  ELSE With([got \in {mint(w, Unwrap(artifact.mint))} |->
         IF ~IsSome(got.val)
         THEN [w |-> got.w, unallocated |-> unallocated, minted |-> None]
         ELSE [w |-> got.w,
               unallocated |-> AddLot(unallocated, Unwrap(artifact.mint), Unwrap(got.val)),
               minted |-> Some(<<Unwrap(artifact.mint), Unwrap(got.val)>>)]])

is_p2tr(script) == Len(script) = 34 /\ script[1] = OP_PUSHNUM_1 /\ script[2] = 32

\* RuneUpdater::tx_commits_to_rune: [w, val]. tx.commit is the 0-based index of the
\* input whose witness carries the commitment to the rune in a tapscript, if any; the
\* commit transaction is taken to be buried deep enough.
tx_commits_to_rune(w, tx) ==
  IF ~IsSome(tx.commit) THEN [w |-> w, val |-> FALSE]
  ELSE With([fetched \in {get_script_pubkey(w, tx.input[Unwrap(tx.commit) + 1])} |->
         [w |-> fetched.w, val |-> IsSome(fetched.val) /\ is_p2tr(Unwrap(fetched.val))]])

\* RuneUpdater::etched: [w, val], val Some([id, rune]) or None
etched(w, index, tx, artifact) ==
  IF ~IsSome(artifact.etching) THEN [w |-> w, val |-> None]
  ELSE LET rune == Unwrap(artifact.etching).rune
           id == <<Height, index>>
       IN IF IsSome(rune)
          THEN LET too_low == Unwrap(rune) < MinimumRune
                   reserved == RuneIsReserved(Unwrap(rune))
                   already == Has(w.rune_to_id, Unwrap(rune))
               IN With([commits \in {tx_commits_to_rune(w, tx)} |->
                    IF too_low \/ reserved \/ already \/ ~commits.val
                    THEN [w |-> commits.w, val |-> None]
                    ELSE [w |-> commits.w,
                          val |-> Some([id |-> id, rune |-> Unwrap(rune)])]])
          ELSE [w |-> w, val |-> Some([id |-> id, rune |-> RuneReserved(Height, index)])]

\* RuneUpdater::process_premine: [unallocated, premine]
process_premine(artifact, etched_rune, unallocated) ==
  IF artifact.type = "Runestone" /\ IsSome(etched_rune)
  THEN LET premine == IF IsSome(Unwrap(artifact.etching).premine)
                      THEN Unwrap(Unwrap(artifact.etching).premine) ELSE 0
       IN AddLot(unallocated, Unwrap(etched_rune).id, premine)
  ELSE unallocated

AllAuthorities == 7

\* RuneUpdater::build_initial_authority_scripts_blob
\* build_initial_authority_scripts_blob that seeds the Master slot only
build_initial_blob_master_only(compact) ==
  <<mask(Master), compact.kind, Len(compact.body)>> \o compact.body

build_initial_authority_scripts_blob(compact) ==
  LET triple == <<compact.kind, Len(compact.body)>> \o compact.body
  IN <<AllAuthorities>> \o triple \o triple \o triple

\* RuneUpdater::create_rune_entry
create_rune_entry(w, artifact, id, rune, tx) ==
  With([w1 \in {[w EXCEPT !.rune_to_id = MapInsert(@, rune, id)]} |->
    IF artifact.type = "Cenotaph"
    THEN [w1 EXCEPT !.id_to_entry =
            MapInsert(@, id, [burned |-> 0, mints |-> 0, premine |-> 0,
                              terms |-> None, rune |-> rune])]
    ELSE
      LET etching == Unwrap(artifact.etching)
          allow_minting == IsSome(etching.terms) /\ Unwrap(etching.terms).allow_minting
          allow_blacklisting ==
            IsSome(etching.terms) /\ Unwrap(etching.terms).allow_blacklisting
          flags0 == insert(0, Master)
          flags1 == IF allow_minting THEN insert(flags0, Mint) ELSE flags0
          flags == IF allow_blacklisting THEN insert(flags1, Blacklist) ELSE flags1
      IN With([authority_script \in {IF tx.input = <<>> THEN [w |-> w1, val |-> None]
                                     ELSE get_script_pubkey(w1, tx.input[1])} |->
         With([w2 \in {[authority_script.w EXCEPT
                          !.rune_id_to_authority_flags = MapInsert(@, id, flags)]} |->
         With([compact \in {IF IsSome(authority_script.val)
                            THEN try_from_script(Unwrap(authority_script.val))
                            ELSE None} |->
         With([w3 \in {IF IsSome(compact)
                       THEN [w2 EXCEPT !.rune_id_to_authority_scripts =
                               MapInsert(@, id,
                                         build_initial_authority_scripts_blob(
                                           Unwrap(compact)))]
                       ELSE w2} |->
           [w3 EXCEPT !.id_to_entry =
              MapInsert(@, id, [burned |-> 0, mints |-> 0,
                                premine |-> IF IsSome(etching.premine)
                                            THEN Unwrap(etching.premine) ELSE 0,
                                terms |-> etching.terms, rune |-> rune])]])])])])])

\* the default output of process_cenotaph_and_balances: Some(vout) or None
DefaultOutput(artifact, tx) ==
  LET pointer == IF IsSome(artifact) THEN Unwrap(artifact).pointer ELSE None
      first == Destinations(tx)
  IN IF IsSome(pointer) /\ Unwrap(pointer) < Len(tx.output) THEN pointer
     ELSE IF first # <<>> THEN Some(first[1])
     ELSE None

\* the sweep of the unallocated balances to the default output, in the order ids of
\* the HashMap iteration: s is [w, allocated, blocked]; blocked maps each id whose
\* balance the blacklist kept from the default output to that balance
RECURSIVE SweepFrom(_, _, _, _, _, _)
SweepFrom(s, unallocated, ids, tx, vout, i) ==
  IF i > Len(ids) THEN s
  ELSE LET id == ids[i]
           balance == unallocated[id]
       IN With([next \in {IF balance = 0 THEN s
                          ELSE With([black \in {is_blacklisted(s.w, id,
                                                               tx.output[vout + 1])} |->
                                 IF black.val
                                 THEN [s EXCEPT !.w = black.w,
                                                !.blocked = MapInsert(@, id, balance)]
                                 ELSE [s EXCEPT !.w = black.w,
                                                !.allocated[vout + 1] =
                                                   AddLot(@, id, balance)]])} |->
            SweepFrom(next, unallocated, ids, tx, vout, i + 1)])

\* burned += every (positive, when positive_only) balance of a map
RECURSIVE BurnAll(_, _, _, _, _)
BurnAll(burnt, balances, ids, positive_only, i) ==
  IF i > Len(ids) THEN burnt
  ELSE BurnAll(IF positive_only /\ balances[ids[i]] = 0 THEN burnt
               ELSE AddLot(burnt, ids[i], balances[ids[i]]),
               balances, ids, positive_only, i + 1)

\* a row that lists the balances by descending id
SortedRowDescending(balances) ==
  LET ids == Reverse(SortIds(DOMAIN balances))
  IN [i \in 1..Len(ids) |-> <<ids[i], balances[ids[i]]>>]

\* the row written for an output: its balances sorted by id
SortedRow(balances) ==
  LET ids == SortIds(DOMAIN balances)
  IN [i \in 1..Len(ids) |-> <<ids[i], balances[ids[i]]>>]

\* the loop "update outpoint balances" that writes a row for an OP_RETURN output too
RECURSIVE WriteOutputsKeep(_, _, _, _, _)
WriteOutputsKeep(b, allocated, tx, txid, i) ==
  IF i > Len(allocated) THEN b
  ELSE With([next \in {IF DOMAIN allocated[i] = {} THEN b
                       ELSE [b EXCEPT !.w.outpoint_to_balances =
                               MapInsert(@, <<txid, i - 1>>, SortedRow(allocated[i]))]} |->
         WriteOutputsKeep(next, allocated, tx, txid, i + 1)])

\* the loop "update outpoint balances": b is [w, burned]
RECURSIVE WriteOutputs(_, _, _, _, _)
WriteOutputs(b, allocated, tx, txid, i) ==
  IF i > Len(allocated) THEN b
  ELSE With([next \in {IF DOMAIN allocated[i] = {} THEN b
                       ELSE IF is_op_return(tx.output[i])
                            THEN [b EXCEPT !.burned =
                                    BurnAll(@, allocated[i], SortIds(DOMAIN allocated[i]),
                                            FALSE, 1)]
                            ELSE [b EXCEPT !.w.outpoint_to_balances =
                                    MapInsert(@, <<txid, i - 1>>,
                                              SortedRow(allocated[i]))]} |->
         WriteOutputs(next, allocated, tx, txid, i + 1)])

\* RuneUpdater::process_cenotaph_and_balances: [w, burned, blocked]. descending tells
\* the order in which the HashMap of unallocated balances is iterated.
process_cenotaph_and_balances(w, artifact, unallocated, allocated, tx, txid, descending) ==
  With([ids \in {IF descending THEN Reverse(SortIds(DOMAIN unallocated))
                 ELSE SortIds(DOMAIN unallocated)} |->
  With([vout \in {DefaultOutput(artifact, tx)} |->
    LET cenotaph == IsSome(artifact) /\ Unwrap(artifact).type = "Cenotaph"
        burned0 == IF cenotaph THEN BurnAll(EmptyMap, unallocated, ids, FALSE, 1)
                   ELSE IF IsSome(vout) THEN EmptyMap
                   ELSE BurnAll(EmptyMap, unallocated, ids, TRUE, 1)
    IN With([swept \in {IF ~cenotaph /\ IsSome(vout)
                        THEN SweepFrom([w |-> w, allocated |-> allocated,
                                        blocked |-> EmptyMap],
                                       unallocated, ids, tx, Unwrap(vout), 1)
                        ELSE [w |-> w, allocated |-> allocated, blocked |-> EmptyMap]} |->
       With([written \in {WriteOutputs([w |-> swept.w, burned |-> burned0],
                                       swept.allocated, tx, txid, 1)} |->
         [w |-> written.w, burned |-> written.burned, blocked |-> swept.blocked]])])])])

\* RuneUpdater::update_burned
update_burned(w, burnt) ==
  [w EXCEPT !.burned = BurnAll(@, burnt, SortIds(DOMAIN burnt), FALSE, 1)]


NoRunestone ==
  [w |-> EmptyMap, unallocated |-> EmptyMap, allocated |-> <<>>,
   set_authority |-> NoSetAuthority, updates |-> NoUpdates, log |-> <<>>]

\* RuneUpdater::index_runes for the transaction at position index of the block, whose
\* txid is modelled by index. The result holds the world after the call and the
\* locals of the call that the properties speak about.
index_runes(w, index, tx, descending) ==
  LET txid == index
      artifact == tx.artifact
      allocated0 == [i \in 1..Len(tx.output) |-> EmptyMap]
  IN With([calc \in {calculate_unallocated(w, tx)} |->
     With([minted \in {IF IsSome(artifact)
                       THEN process_mint(calc.w, Unwrap(artifact), calc.val)
                       ELSE [w |-> calc.w, unallocated |-> calc.val, minted |-> None]} |->
     With([etch \in {IF IsSome(artifact) THEN etched(minted.w, index, tx, Unwrap(artifact))
                     ELSE [w |-> minted.w, val |-> None]} |->
     With([premined \in {IF IsSome(artifact)
                         THEN process_premine(Unwrap(artifact), etch.val,
                                              minted.unallocated)
                         ELSE minted.unallocated} |->
     With([executed \in {IF IsSome(artifact) /\ Unwrap(artifact).type = "Runestone"
                         THEN process_runestone(etch.w, tx, Unwrap(artifact), etch.val,
                                                premined, allocated0)
                         ELSE [NoRunestone EXCEPT !.w = etch.w, !.unallocated = premined,
                                                  !.allocated = allocated0]} |->
     With([created \in {IF IsSome(etch.val)
                        THEN create_rune_entry(executed.w, Unwrap(artifact),
                                               Unwrap(etch.val).id, Unwrap(etch.val).rune,
                                               tx)
                        ELSE executed.w} |->
     With([balanced \in {process_cenotaph_and_balances(
                           created, artifact, executed.unallocated, executed.allocated,
                           tx, txid, descending)} |->
       [w |-> update_burned(balanced.w, balanced.burned),
        locals |-> [tx |-> tx,
                    txid |-> txid,
                    inputs |-> calc.val,
                    minted |-> minted.minted,
                    etched |-> etch.val,
                    set_authority |-> executed.set_authority,
                    updates |-> executed.updates,
                    log |-> executed.log,
                    checks |-> balanced.w.checks,
                    reads |-> balanced.w.reads,
                    unallocated |-> executed.unallocated,
                    blocked |-> balanced.blocked,
                    burned |-> balanced.burned]]])])])])])])])

\* RuneUpdater::update: the burned amounts of the block are added to the entries
RECURSIVE UpdateFrom(_, _, _, _)
UpdateFrom(entries, burnt, ids, i) ==
  IF i > Len(ids) THEN entries
  ELSE UpdateFrom([entries EXCEPT ![ids[i]].burned = @ + burnt[ids[i]]], burnt, ids, i + 1)

----------------------------------------------------------------------------
(* The state machine *)

World ==
  [outpoint_to_balances |-> outpoint_to_balances,
   id_to_entry |-> id_to_entry,
   rune_to_id |-> rune_to_id,
   rune_id_to_authority_flags |-> rune_id_to_authority_flags,
   rune_id_to_authority_scripts |-> rune_id_to_authority_scripts,
   rune_id_to_minters |-> rune_id_to_minters,
   rune_id_to_blacklist |-> rune_id_to_blacklist,
   rune_id_to_supply_extra |-> rune_id_to_supply_extra,
   burned |-> burned,
   script_cache |-> script_cache,
   authority_cache |-> authority_cache,
   chain |-> chain,
   checks |-> <<>>,
   reads |-> <<>>]

NoLocals ==
  [tx |-> [input |-> <<>>, output |-> <<>>, artifact |-> None, commit |-> None,
           fund |-> <<>>],
   txid |-> 0, inputs |-> EmptyMap, minted |-> None, etched |-> None,
   set_authority |-> NoSetAuthority, updates |-> NoUpdates, log |-> <<>>,
   checks |-> <<>>, reads |-> <<>>, unallocated |-> EmptyMap, blocked |-> EmptyMap,
   burned |-> EmptyMap]

\* the budgets the two caches are constructed with
ScriptCacheBudget == 200

ContextCacheBudget == 300

\* the state of a RuneUpdater constructed over an empty index at the start of a block
Init ==
  /\ outpoint_to_balances = EmptyMap
  /\ id_to_entry = EmptyMap
  /\ rune_to_id = EmptyMap
  /\ rune_id_to_authority_flags = EmptyMap
  /\ rune_id_to_authority_scripts = EmptyMap
  /\ rune_id_to_minters = EmptyMap
  /\ rune_id_to_blacklist = EmptyMap
  /\ rune_id_to_supply_extra = EmptyMap
  /\ burned = EmptyMap
  /\ script_cache = ScriptCacheNew(ScriptCacheBudget)
  /\ authority_cache = ContextCacheNew(ContextCacheBudget)
  /\ chain = EmptyMap
  /\ spent = {}
  /\ tx_index = 1
  /\ last = NoLocals

\* the outpoint of the j-th (1-based) funding output of the transaction at index: an
\* output of an earlier transaction that carries no runes, paid to the script tx.fund[j]
FundOutpoint(index, j) == <<0 - index, j - 1>>

\* the null outpoint of a coinbase input, which the node cannot resolve
NullOutpoint == <<0, 0>>

\* The updater indexes the next transaction of the block. The node knows the funding
\* outputs the transaction spends and the transaction itself.
IndexRunes(tx, descending) ==
  \E known \in {MapInsert(MapInsert(chain, 0 - tx_index, tx.fund), tx_index, tx.output)} :
  \E r \in {index_runes([World EXCEPT !.chain = known], tx_index, tx, descending)} :
     /\ outpoint_to_balances' = r.w.outpoint_to_balances
     /\ id_to_entry' = r.w.id_to_entry
     /\ rune_to_id' = r.w.rune_to_id
     /\ rune_id_to_authority_flags' = r.w.rune_id_to_authority_flags
     /\ rune_id_to_authority_scripts' = r.w.rune_id_to_authority_scripts
     /\ rune_id_to_minters' = r.w.rune_id_to_minters
     /\ rune_id_to_blacklist' = r.w.rune_id_to_blacklist
     /\ rune_id_to_supply_extra' = r.w.rune_id_to_supply_extra
     /\ burned' = r.w.burned
     /\ script_cache' = r.w.script_cache
     /\ authority_cache' = r.w.authority_cache
     /\ chain' = known
     /\ spent' = spent \cup Range(tx.input)
     /\ tx_index' = tx_index + 1
     /\ last' = r.locals

----------------------------------------------------------------------------
(* The transactions of the block *)

P2TRScript(body) == <<OP_PUSHNUM_1, 32>> \o body

P2WPKHScript(body) == <<OP_PUSHBYTES_0, 20>> \o body

\* the x-only keys and the key hash of the parties
KeyA == Rep(32, 1)

KeyB == Rep(32, 2)

KeyU == Rep(32, 17)

KeyT == Rep(20, 34)

ScriptA == P2TRScript(KeyA)

ScriptB == P2TRScript(KeyB)

ScriptU == P2TRScript(KeyU)

ScriptT == P2WPKHScript(KeyT)

OpReturnScript == <<OP_RETURN>>

\* a multimap entry [kind][body]
Entry(kind, body) == <<kind>> \o body

Stone(edicts, etching, mint_id, pointer, set_authority, authority) ==
  [type |-> "Runestone", edicts |-> edicts, etching |-> etching, mint |-> mint_id,
   pointer |-> pointer, set_authority |-> set_authority, authority |-> authority]

Cenotaph(etching, mint_id) ==
  [type |-> "Cenotaph", edicts |-> <<>>, etching |-> etching, mint |-> mint_id,
   pointer |-> None, set_authority |-> None, authority |-> None]

Updates(add_minter, remove_minter, blacklist, unblacklist) ==
  [add_minter |-> add_minter, remove_minter |-> remove_minter,
   blacklist |-> blacklist, unblacklist |-> unblacklist]

Terms(allow_minting, allow_blacklisting, amount, cap) ==
  [allow_minting |-> allow_minting, allow_blacklisting |-> allow_blacklisting,
   amount |-> amount, cap |-> cap]

\* a transaction that spends one fresh funding output paid to signer
Signed(signer, output, artifact) ==
  [input |-> <<FundOutpoint(tx_index, 1)>>, fund |-> <<signer>>, commit |-> None,
   output |-> output, artifact |-> artifact]

\* a transaction that spends outputs of earlier transactions of the block
Spending(input, output, artifact) ==
  [input |-> input, fund |-> <<>>, commit |-> None, output |-> output,
   artifact |-> artifact]

\* the unspent outputs of the transactions of the block that are not OP_RETURN
Unspent ==
  {o \in UNION {{<<t, v - 1>> : v \in 1..Len(chain[t])} : t \in {x \in DOMAIN chain : x > 0}} :
     o \notin spent /\ ~is_op_return(chain[o[1]][o[2] + 1])}

\* the unspent outputs that carry runes
Holders == {o \in Unspent : Has(outpoint_to_balances, o)}

RuneIds == DOMAIN id_to_entry

\* the number of transactions of the block
MaxTx == 3

MaxRunes == 1

RuneName == 5

EtchTerms ==
  {Some(Terms(FALSE, TRUE, None, None)), Some(Terms(TRUE, TRUE, Some(3), Some(1)))}

\* an etching of a named rune by ScriptA (input 0 carries the commitment), the premine
\* going to the first output after the OP_RETURN
EtchTxs ==
  {[Signed(ScriptA, <<OpReturnScript, to>>,
           Some(Stone(<<>>, Some([rune |-> Some(RuneName), premine |-> Some(p),
                                  terms |-> terms]),
                      None, None, None, None)))
      EXCEPT !.commit = Some(0)] :
     to \in {ScriptA, ScriptU}, p \in {0, 10}, terms \in EtchTerms}

\* blacklist or unblacklist requests for ScriptU, the rune named by the mint field
BlacklistTxs ==
  {Signed(signer, <<OpReturnScript, signer>>,
          Some(Stone(<<>>, None, Some(id), None, None, Some(updates)))) :
     signer \in {ScriptA, ScriptU}, id \in RuneIds,
     updates \in {Updates(None, None, Some(<<Entry(P2TR, KeyU)>>), None),
                  Updates(None, None, None, Some(<<Entry(P2TR, KeyU)>>))}}

TransferEdicts ==
  {<<>>}
  \cup {<<[id |-> id, amount |-> amount, output |-> output]>> :
          id \in RuneIds, amount \in {0, 4}, output \in 0..3}
  \cup {<<[id |-> id, amount |-> 4, output |-> 1], [id |-> id, amount |-> 4, output |-> 2]>> :
          id \in RuneIds}

\* a holder spends its runes, with or without a runestone
TransferTxs ==
  {Spending(<<o>>, <<OpReturnScript, to[1], to[2]>>,
            Some(Stone(edicts, None, None, pointer, None, None))) :
     o \in Holders, to \in {<<ScriptU, ScriptT>>, <<ScriptT, ScriptU>>},
     edicts \in TransferEdicts, pointer \in {None, Some(2)}}
  \cup {Spending(<<o>>, <<to>>, None) : o \in Holders, to \in {ScriptU, ScriptT}}

\* a holder spends its runes in a transaction whose runestone is a cenotaph
CenotaphTxs ==
  {Spending(<<o>>, <<OpReturnScript, ScriptT>>, Some(Cenotaph(None, mint_id))) :
     o \in Holders, mint_id \in {None} \cup {Some(id) : id \in RuneIds}}

Etch ==
  /\ tx_index <= MaxTx
  /\ Cardinality(DOMAIN rune_to_id) < MaxRunes
  /\ \E tx \in EtchTxs : IndexRunes(tx, FALSE)

BlacklistUpdate ==
  /\ tx_index <= MaxTx
  /\ \E tx \in BlacklistTxs : IndexRunes(tx, FALSE)

Transfer ==
  /\ tx_index <= MaxTx
  /\ \E tx \in TransferTxs : IndexRunes(tx, FALSE)

CenotaphBurn ==
  /\ tx_index <= MaxTx
  /\ \E tx \in CenotaphTxs : IndexRunes(tx, FALSE)

Next == Etch \/ BlacklistUpdate \/ Transfer \/ CenotaphBurn

Spec == Init /\ [][Next]_vars

----------------------------------------------------------------------------
(* A block in which holders of several runes are blacklisted and spend *)

MaxLockTx == 5

MaxLockRunes == 2

\* an etching of the next rune by ScriptA with a premine of 10 paid to ScriptU; the
\* transaction may also spend the output of a holder, whose runes go to the same output
LockEtchTxs ==
  {[input |-> <<FundOutpoint(tx_index, 1)>> \o extra, fund |-> <<ScriptA>>,
    commit |-> Some(0), output |-> <<OpReturnScript, ScriptU>>,
    artifact |->
      Some(Stone(<<>>, Some([rune |-> Some(RuneName + Cardinality(RuneIds)),
                             premine |-> Some(10),
                             terms |-> Some(Terms(FALSE, TRUE, None, None))]),
                 None, None, None, None))] :
     extra \in {<<>>} \cup {<<o>> : o \in Holders}}

\* the authority ScriptA blacklists or unblacklists ScriptU for one rune
LockBlacklistTxs ==
  {Signed(ScriptA, <<OpReturnScript, ScriptA>>,
          Some(Stone(<<>>, None, Some(id), None, None, Some(updates)))) :
     id \in RuneIds,
     updates \in {Updates(None, None, Some(<<Entry(P2TR, KeyU)>>), None),
                  Updates(None, None, None, Some(<<Entry(P2TR, KeyU)>>))}}

\* one or two holders' outputs are spent to ScriptT without a runestone
LockSpendTxs ==
  {Spending(input, <<ScriptT>>, None) :
     input \in {<<o>> : o \in Holders}
               \cup {<<o[1], o[2]>> : o \in {p \in Holders \X Holders : p[1] # p[2]}}}

EtchLock ==
  /\ tx_index <= MaxLockTx
  /\ Cardinality(RuneIds) < MaxLockRunes
  /\ \E tx \in LockEtchTxs : IndexRunes(tx, FALSE)

BlacklistLock ==
  /\ tx_index <= MaxLockTx
  /\ \E tx \in LockBlacklistTxs : IndexRunes(tx, FALSE)

SpendLock ==
  /\ tx_index <= MaxLockTx
  /\ \E tx \in LockSpendTxs : \E descending \in BOOLEAN : IndexRunes(tx, descending)

NextLock == EtchLock \/ BlacklistLock \/ SpendLock

SpecLock == Init /\ [][NextLock]_vars

----------------------------------------------------------------------------
(* A block in which authority is claimed from different input positions *)

MaxCheckTx == 3

\* a transaction whose input j spends a fresh funding output paid to scripts[j], or
\* the null outpoint where scripts[j] is the empty script
Funded(scripts, output, artifact) ==
  [input |-> [j \in 1..Len(scripts) |->
                IF scripts[j] = <<>> THEN NullOutpoint ELSE FundOutpoint(tx_index, j)],
   fund |-> scripts, commit |-> None, output |-> output, artifact |-> artifact]

\* the authority ScriptA alone, behind one, nine or ten inputs of ScriptU, behind an
\* unresolvable input; ScriptU alone
CheckLayouts ==
  {<<ScriptA>>, <<ScriptU>>, <<ScriptU, ScriptA>>, <<<<>>, ScriptA>>,
   Rep(AUTHORITY_INPUT_LIMIT - 1, ScriptU) \o <<ScriptA>>,
   Rep(AUTHORITY_INPUT_LIMIT, ScriptU) \o <<ScriptA>>}

\* requests that need the Master, the Blacklist or the Mint authority
CheckStones(id) ==
  {Stone(<<>>, None, Some(id), None, None,
         Some(Updates(Some(<<Entry(P2WPKH, KeyT)>>), None, None, None))),
   Stone(<<>>, None, Some(id), None, None,
         Some(Updates(None, None, Some(<<Entry(P2TR, KeyA)>>), None))),
   Stone(<<>>, None, Some(id), None, None,
         Some(Updates(None, None, Some(<<Entry(P2TR, KeyU)>>), None))),
   Stone(<<>>, None, Some(id), None, None,
         Some(Updates(None, None, None, Some(<<Entry(P2TR, KeyU)>>)))),
   Stone(<<[id |-> id, amount |-> 4, output |-> 1]>>, None, None, None, None, None)}

\* the id of a rune that was never etched
UnknownId == <<Height, 0>>

\* an etching by ScriptA of a rune with the Mint and Blacklist flags and no premine
CheckEtchTxs ==
  {[Signed(ScriptA, <<OpReturnScript, ScriptA>>,
           Some(Stone(<<>>, Some([rune |-> Some(RuneName), premine |-> None,
                                  terms |-> Some(Terms(TRUE, TRUE, None, None))]),
                      None, None, None, None)))
      EXCEPT !.commit = Some(0)]}

CheckRequestTxs ==
  {Funded(scripts, <<OpReturnScript, ScriptT>>, Some(stone)) :
     scripts \in CheckLayouts,
     stone \in UNION {CheckStones(id) : id \in RuneIds \cup {UnknownId}}}

EtchCheck ==
  /\ tx_index <= MaxCheckTx
  /\ RuneIds = {}
  /\ \E tx \in CheckEtchTxs : IndexRunes(tx, FALSE)

RequestCheck ==
  /\ tx_index <= MaxCheckTx
  /\ RuneIds # {}
  /\ \E tx \in CheckRequestTxs : IndexRunes(tx, FALSE)

NextCheck == EtchCheck \/ RequestCheck

SpecCheck == Init /\ [][NextCheck]_vars

----------------------------------------------------------------------------
(* A block in which edicts ask for more than the balance *)

MaxMintTx == 4

\* a SetAuthority field: the requested kinds as bits and the compact body
SetAuthority(authorities, body) ==
  [authorities |-> authorities, script_pubkey_compact |-> body]

\* an etching by ScriptA of a rune with open-mint terms (3 per mint, 2 mints), with or
\* without the Mint flag
MintEtchTxs ==
  {[Signed(ScriptA, <<OpReturnScript, ScriptA>>,
           Some(Stone(<<>>, Some([rune |-> Some(RuneName), premine |-> None,
                                  terms |-> Some(Terms(allow_minting, TRUE,
                                                       Some(3), Some(2)))]),
                      None, None, None, None)))
      EXCEPT !.commit = Some(0)] : allow_minting \in BOOLEAN}

\* ScriptA lists ScriptT as a minter, blacklists ScriptT, or hands the Mint authority
\* to ScriptB
MintSetupTxs ==
  {Signed(ScriptA, <<OpReturnScript, ScriptA>>, Some(stone)) :
     stone \in UNION {
       {Stone(<<>>, None, Some(id), None, None,
              Some(Updates(Some(<<Entry(P2WPKH, KeyT)>>), None, None, None))),
        Stone(<<>>, None, Some(id), None, None,
              Some(Updates(None, None, Some(<<Entry(P2WPKH, KeyT)>>), None))),
        Stone(<<[id |-> id, amount |-> 0, output |-> 0]>>, None, None, None,
              Some(SetAuthority(mask(Mint), KeyB)), None)} : id \in RuneIds}}

MintLayouts ==
  {<<ScriptA>>, <<ScriptB>>, <<ScriptT>>, <<ScriptU>>,
   Rep(AUTHORITY_INPUT_LIMIT, ScriptU) \o <<ScriptA>>}

\* one or two edicts for the rune, with or without an open mint in the same runestone
MintStones(id) ==
  {Stone(<<[id |-> id, amount |-> amount, output |-> 1]>>, None, None, None, None, None) :
     amount \in {2, 4}}
  \cup {Stone(<<[id |-> id, amount |-> 4, output |-> 1]>>, None, Some(id), None, None, None),
        Stone(<<[id |-> id, amount |-> 4, output |-> 1],
                [id |-> id, amount |-> 2, output |-> 2]>>, None, None, None, None, None)}

MintRequestTxs ==
  {Funded(scripts, <<OpReturnScript, ScriptU, ScriptU>>, Some(stone)) :
     scripts \in MintLayouts, stone \in UNION {MintStones(id) : id \in RuneIds}}

EtchMint ==
  /\ tx_index <= MaxMintTx
  /\ RuneIds = {}
  /\ \E tx \in MintEtchTxs : IndexRunes(tx, FALSE)

SetupMint ==
  /\ tx_index <= MaxMintTx
  /\ \E tx \in MintSetupTxs : IndexRunes(tx, FALSE)

RequestMint ==
  /\ tx_index <= MaxMintTx
  /\ \E tx \in MintRequestTxs : IndexRunes(tx, FALSE)

NextMint == EtchMint \/ SetupMint \/ RequestMint

SpecMint == Init /\ [][NextMint]_vars

----------------------------------------------------------------------------
(* A block of SetAuthority requests *)

MaxSetTx == 3

\* a body one byte longer than a compact script can carry
LongBody == Rep(MaxBodyLen + 1, 9)

\* an etching by ScriptA of a rune with the Mint flag, with or without the Blacklist
\* flag, without open-mint terms
SetEtchTxs ==
  {[Signed(ScriptA, <<OpReturnScript, ScriptA>>,
           Some(Stone(<<>>, Some([rune |-> Some(RuneName), premine |-> None,
                                  terms |-> Some(Terms(TRUE, allow_blacklisting,
                                                       None, None))]),
                      None, None, None, None)))
      EXCEPT !.commit = Some(0)] : allow_blacklisting \in BOOLEAN}

\* SetAuthority for the rune named by the mint field, for every set of kinds but the
\* full one, with a 32-byte body, a 33-byte body or an empty body
SetRequestTxs ==
  {Funded(scripts, <<OpReturnScript, ScriptT>>,
          Some(Stone(<<>>, None, Some(id), None,
                     Some(SetAuthority(authorities, body)), None))) :
     scripts \in {<<ScriptA>>, <<ScriptB>>, <<ScriptA, ScriptB>>},
     id \in RuneIds,
     authorities \in {0, mask(Mint), mask(Blacklist), mask(Master),
                      mask(Mint) + mask(Master), mask(Blacklist) + mask(Master)},
     body \in {KeyB, LongBody, <<>>}}

EtchSet ==
  /\ tx_index <= MaxSetTx
  /\ RuneIds = {}
  /\ \E tx \in SetEtchTxs : IndexRunes(tx, FALSE)

RequestSet ==
  /\ tx_index <= MaxSetTx
  /\ \E tx \in SetRequestTxs : IndexRunes(tx, FALSE)

NextSet == EtchSet \/ RequestSet

SpecSet == Init /\ [][NextSet]_vars

----------------------------------------------------------------------------
(* A block in which the Master authority changes hands *)

MaxMasterTx == 5

\* an etching by ScriptA of a rune with the Mint flag, without open-mint terms
MasterEtchTxs ==
  {[Signed(ScriptA, <<OpReturnScript, ScriptA>>,
           Some(Stone(<<>>, Some([rune |-> Some(RuneName), premine |-> None,
                                  terms |-> Some(Terms(TRUE, FALSE, None, None))]),
                      None, None, None, None)))
      EXCEPT !.commit = Some(0)]}

\* ScriptA or ScriptB asks for the Master authority to go to ScriptB
MasterTransferTxs ==
  {Signed(signer, <<OpReturnScript, signer>>,
          Some(Stone(<<>>, None, Some(id), None,
                     Some(SetAuthority(mask(Master), KeyB)), None))) :
     signer \in {ScriptA, ScriptB}, id \in RuneIds}

\* ScriptA or ScriptB asks for ScriptT to be added to or removed from the minters
MasterUpdateTxs ==
  {Signed(signer, <<OpReturnScript, signer>>,
          Some(Stone(<<>>, None, Some(id), None, None, Some(updates)))) :
     signer \in {ScriptA, ScriptB}, id \in RuneIds,
     updates \in {Updates(Some(<<Entry(P2WPKH, KeyT)>>), None, None, None),
                  Updates(None, Some(<<Entry(P2WPKH, KeyT)>>), None, None)}}

\* ScriptT asks for 4 units with nothing unallocated
MasterMintTxs ==
  {Signed(ScriptT, <<OpReturnScript, ScriptU>>,
          Some(Stone(<<[id |-> id, amount |-> 4, output |-> 1]>>,
                     None, None, None, None, None))) : id \in RuneIds}

EtchMaster ==
  /\ tx_index <= MaxMasterTx
  /\ RuneIds = {}
  /\ \E tx \in MasterEtchTxs : IndexRunes(tx, FALSE)

TransferMaster ==
  /\ tx_index <= MaxMasterTx
  /\ \E tx \in MasterTransferTxs : IndexRunes(tx, FALSE)

UpdateMinters ==
  /\ tx_index <= MaxMasterTx
  /\ \E tx \in MasterUpdateTxs : IndexRunes(tx, FALSE)

MintByMinter ==
  /\ tx_index <= MaxMasterTx
  /\ \E tx \in MasterMintTxs : IndexRunes(tx, FALSE)

NextMaster == EtchMaster \/ TransferMaster \/ UpdateMinters \/ MintByMinter

SpecMaster == Init /\ [][NextMaster]_vars

----------------------------------------------------------------------------
(* A block in which one SetAuthority request is sent again and again *)

MaxRepeatTx == 4

\* the last indexed transaction carried a SetAuthority
LastIsRequest ==
  /\ IsSome(last.tx.artifact)
  /\ IsSome(Unwrap(last.tx.artifact).set_authority)

EtchRepeat ==
  /\ tx_index <= MaxRepeatTx
  /\ RuneIds = {}
  /\ \E tx \in SetEtchTxs : IndexRunes(tx, FALSE)

\* the first request of the block
RequestRepeat ==
  /\ tx_index <= MaxRepeatTx
  /\ ~LastIsRequest
  /\ \E tx \in SetRequestTxs : IndexRunes(tx, FALSE)

\* the request of the last transaction again: the same runestone and outputs, and
\* inputs that spend fresh outputs paid to the same scripts
RepeatRequest ==
  /\ tx_index <= MaxRepeatTx
  /\ LastIsRequest
  /\ IndexRunes(Funded(last.tx.fund, last.tx.output, last.tx.artifact), FALSE)

NextRepeat == EtchRepeat \/ RequestRepeat \/ RepeatRequest

SpecRepeat == Init /\ [][NextRepeat]_vars

----------------------------------------------------------------------------
(* A block of blacklist updates that name one script more than once *)

MaxBlackTx == 3

\* the key hash of ScriptT as a P2WPKH entry and as a P2WSH entry, which reconstruct to
\* the same script, and the key of ScriptU as a P2TR entry
EntryTW == Entry(P2WPKH, KeyT)

EntryTS == Entry(P2WSH, KeyT)

EntryU == Entry(P2TR, KeyU)

\* an etching by ScriptA of a rune with the Blacklist flag
BlackEtchTxs ==
  {[Signed(ScriptA, <<OpReturnScript, ScriptA>>,
           Some(Stone(<<>>, Some([rune |-> Some(RuneName), premine |-> None,
                                  terms |-> Some(Terms(FALSE, TRUE, None, None))]),
                      None, None, None, None)))
      EXCEPT !.commit = Some(0)]}

\* blacklist and unblacklist requests of ScriptA (the authority) or ScriptU
BlackUpdateTxs ==
  {Signed(signer, <<OpReturnScript, signer>>,
          Some(Stone(<<>>, None, Some(id), None, None, Some(updates)))) :
     signer \in {ScriptA, ScriptU}, id \in RuneIds,
     updates \in {Updates(None, None, Some(list), None) :
                    list \in {<<EntryTW>>, <<EntryTS>>, <<EntryU>>, <<EntryTW, EntryTW>>,
                              <<EntryTW, EntryTS>>, <<EntryU, EntryTS>>}}
                 \cup {Updates(None, None, None, Some(<<EntryTW>>)),
                       Updates(None, None, Some(<<EntryTS>>), Some(<<EntryU>>))}}

EtchBlack ==
  /\ tx_index <= MaxBlackTx
  /\ RuneIds = {}
  /\ \E tx \in BlackEtchTxs : IndexRunes(tx, FALSE)

UpdateBlack ==
  /\ tx_index <= MaxBlackTx
  /\ \E tx \in BlackUpdateTxs : IndexRunes(tx, FALSE)

NextBlack == EtchBlack \/ UpdateBlack

SpecBlack == Init /\ [][NextBlack]_vars

----------------------------------------------------------------------------
(* Script lookups, one get_script_pubkey call at a time *)

MaxScriptTx == 3

\* a script that alone is larger than the budget of the script cache
LongScript == Rep(ScriptCacheBudget - SCRIPT_CACHE_ENTRY_OVERHEAD + 1, 172)

\* the outputs of the transactions the node comes to know
ScriptOutputs == {<<ScriptA, OpReturnScript>>, <<ScriptT, ScriptB>>, <<LongScript>>}

\* the outpoints looked up: known and unknown transactions, vouts in and out of range
ScriptOutpoints == {<<t, v>> : t \in 1..MaxScriptTx + 1, v \in 0..2}

\* the node learns of a transaction
NodeConfirms ==
  /\ tx_index <= MaxScriptTx
  /\ \E outputs \in ScriptOutputs : chain' = MapInsert(chain, tx_index, outputs)
  /\ tx_index' = tx_index + 1
  /\ UNCHANGED <<outpoint_to_balances, id_to_entry, rune_to_id, rune_id_to_authority_flags,
                 rune_id_to_authority_scripts, rune_id_to_minters, rune_id_to_blacklist,
                 rune_id_to_supply_extra, burned, script_cache, authority_cache, spent,
                 last>>

\* one call of get_script_pubkey; the call, its answer and the keys cached before it
\* are recorded in last.checks
Lookup ==
  /\ \E outpoint \in ScriptOutpoints :
     \E r \in {get_script_pubkey(World, outpoint)} :
        /\ script_cache' = r.w.script_cache
        /\ last' = [NoLocals EXCEPT !.checks =
                      <<[kind |-> "Script", outpoint |-> outpoint, val |-> r.val,
                         before |-> DOMAIN script_cache.cache]>>]
  /\ UNCHANGED <<outpoint_to_balances, id_to_entry, rune_to_id, rune_id_to_authority_flags,
                 rune_id_to_authority_scripts, rune_id_to_minters, rune_id_to_blacklist,
                 rune_id_to_supply_extra, burned, authority_cache, chain, spent, tx_index>>

NextScripts == NodeConfirms \/ Lookup

SpecScripts == Init /\ [][NextScripts]_vars

----------------------------------------------------------------------------
(* The context cache, one operation at a time *)

MaxCtxTx == 3

\* blacklist requests of ScriptA, the authority of the rune etched by BlackEtchTxs
CtxUpdateTxs ==
  {Signed(ScriptA, <<OpReturnScript, ScriptA>>,
          Some(Stone(<<>>, None, Some(id), None, None,
                     Some(Updates(None, None, Some(list), None))))) :
     id \in RuneIds, list \in {<<EntryTW>>, <<EntryU>>}}

\* the rune ids whose context is asked for: the etched rune and ids of no rune
CtxIds == RuneIds \cup {<<Height, 5>>, <<Height, 6>>, <<Height, 7>>}

EtchCtx ==
  /\ tx_index <= MaxCtxTx
  /\ RuneIds = {}
  /\ \E tx \in BlackEtchTxs : IndexRunes(tx, FALSE)

UpdateCtx ==
  /\ tx_index <= MaxCtxTx
  /\ \E tx \in CtxUpdateTxs : IndexRunes(tx, FALSE)

\* one call of get_context: get_existing on a hit, load_context and insert_and_get on a
\* miss; the call, the keys cached before it and the size of the context handed out
\* are recorded in last.checks
GetContext ==
  /\ \E id \in CtxIds :
     \E r \in {get_context(World, id)} :
        /\ authority_cache' = r.w.authority_cache
        /\ last' = [NoLocals EXCEPT !.checks =
                      <<[kind |-> "Context", id |-> id, size |-> ContextSize(r.val),
                         before |-> DOMAIN authority_cache.contexts]>>]
  /\ UNCHANGED <<outpoint_to_balances, id_to_entry, rune_to_id, rune_id_to_authority_flags,
                 rune_id_to_authority_scripts, rune_id_to_minters, rune_id_to_blacklist,
                 rune_id_to_supply_extra, burned, script_cache, chain, spent, tx_index>>

\* one call of invalidate
Invalidate ==
  /\ \E id \in CtxIds : authority_cache' = invalidate(authority_cache, id)
  /\ last' = NoLocals
  /\ UNCHANGED <<outpoint_to_balances, id_to_entry, rune_to_id, rune_id_to_authority_flags,
                 rune_id_to_authority_scripts, rune_id_to_minters, rune_id_to_blacklist,
                 rune_id_to_supply_extra, burned, script_cache, chain, spent, tx_index>>

\* one call of update_supply_extra
UpdateSupplyExtra ==
  /\ \E id \in CtxIds, value \in {0, 5} :
        authority_cache' = update_supply_extra(authority_cache, id, value)
  /\ last' = NoLocals
  /\ UNCHANGED <<outpoint_to_balances, id_to_entry, rune_to_id, rune_id_to_authority_flags,
                 rune_id_to_authority_scripts, rune_id_to_minters, rune_id_to_blacklist,
                 rune_id_to_supply_extra, burned, script_cache, chain, spent, tx_index>>

NextCtx == EtchCtx \/ UpdateCtx \/ GetContext \/ Invalidate \/ UpdateSupplyExtra

SpecCtx == Init /\ [][NextCtx]_vars

----------------------------------------------------------------------------
(* A block of transactions that carry a SetAuthority, AuthorityUpdates and an edict *)

MaxOrderTx == 3

EntryA == Entry(P2TR, KeyA)

\* an etching by ScriptA of a rune with the Mint and the Blacklist flag
OrderEtchTxs ==
  {[Signed(ScriptA, <<OpReturnScript, ScriptA>>,
           Some(Stone(<<>>, Some([rune |-> Some(RuneName), premine |-> None,
                                  terms |-> Some(Terms(TRUE, TRUE, None, None))]),
                      None, None, None, None)))
      EXCEPT !.commit = Some(0)]}

\* transactions funded by ScriptA, ScriptB or both, paying to ScriptU, whose runestone
\* names the rune and may hand an authority to ScriptB, may add the minter ScriptT,
\* blacklist or unblacklist ScriptU or blacklist ScriptA, and may ask for 4 units for
\* output 1
OrderTxs ==
  {Funded(fund, <<OpReturnScript, ScriptU>>,
          Some(Stone(IF edict THEN <<[id |-> id, amount |-> 4, output |-> 1]>> ELSE <<>>,
                     None, Some(id), None, set_authority, authority))) :
     fund \in {<<ScriptA>>, <<ScriptB>>, <<ScriptA, ScriptB>>},
     id \in RuneIds,
     edict \in BOOLEAN,
     set_authority \in {None} \cup {Some(SetAuthority(mask(kind), KeyB)) :
                                      kind \in {Mint, Blacklist, Master}},
     authority \in {None,
                    Some(Updates(Some(<<EntryTW>>), None, None, None)),
                    Some(Updates(None, None, Some(<<EntryU>>), None)),
                    Some(Updates(None, None, Some(<<EntryA>>), None)),
                    Some(Updates(None, None, None, Some(<<EntryU>>)))}}

EtchOrder ==
  /\ tx_index <= MaxOrderTx
  /\ RuneIds = {}
  /\ \E tx \in OrderEtchTxs : IndexRunes(tx, FALSE)

SendOrder ==
  /\ tx_index <= MaxOrderTx
  /\ \E tx \in OrderTxs : IndexRunes(tx, FALSE)

NextOrder == EtchOrder \/ SendOrder

SpecOrder == Init /\ [][NextOrder]_vars

----------------------------------------------------------------------------
(* A block in which one transaction carries edicts for two runes *)

MaxSwapTx == 4

MaxSwapRunes == 2

\* an etching of the next rune by ScriptA with a premine of 10 paid to ScriptB, with
\* the Blacklist flag and with or without the Mint flag
SwapEtchTxs ==
  {[Signed(ScriptA, <<OpReturnScript, ScriptB>>,
           Some(Stone(<<>>, Some([rune |-> Some(RuneName + Cardinality(RuneIds)),
                                  premine |-> Some(10),
                                  terms |-> Some(Terms(allow_minting, TRUE, None, None))]),
                      None, None, None, None)))
      EXCEPT !.commit = Some(0)] : allow_minting \in BOOLEAN}

\* the authority ScriptA blacklists ScriptU for one rune
SwapBlacklistTxs ==
  {Signed(ScriptA, <<OpReturnScript, ScriptA>>,
          Some(Stone(<<>>, None, Some(id), None, None,
                     Some(Updates(None, None, Some(<<EntryU>>), None))))) :
     id \in RuneIds}

\* an edict for rune id: everything, 4 units or 12 units, to output 1 or split over
\* the outputs
SwapEdicts(id) ==
  {[id |-> id, amount |-> amount, output |-> output] :
     amount \in {0, 4, 12}, output \in {1, 3}}

\* ScriptA or ScriptB spends the two premines in a transaction that pays to ScriptU and
\* ScriptT and carries one edict for each of the two runes
SwapTxs ==
  {[input |-> <<FundOutpoint(tx_index, 1), holders[1], holders[2]>>,
    fund |-> <<signer>>, commit |-> None,
    output |-> <<OpReturnScript, ScriptU, ScriptT>>,
    artifact |-> Some(Stone(<<first, second>>, None, None, None, None, None))] :
     signer \in {ScriptA, ScriptB},
     holders \in {p \in Holders \X Holders : IdLess(p[1], p[2])},
     first \in SwapEdicts(SortIds(RuneIds)[1]),
     second \in SwapEdicts(SortIds(RuneIds)[2])}

EtchSwap ==
  /\ tx_index <= MaxSwapTx
  /\ Cardinality(RuneIds) < MaxSwapRunes
  /\ \E tx \in SwapEtchTxs : IndexRunes(tx, FALSE)

BlacklistSwap ==
  /\ tx_index <= MaxSwapTx
  /\ \E tx \in SwapBlacklistTxs : IndexRunes(tx, FALSE)

SendSwap ==
  /\ tx_index <= MaxSwapTx
  /\ Cardinality(RuneIds) = MaxSwapRunes
  /\ last.log = <<>>
  /\ \E tx \in SwapTxs : \E descending \in BOOLEAN : IndexRunes(tx, descending)

NextSwap == EtchSwap \/ BlacklistSwap \/ SendSwap

SpecSwap == Init /\ [][NextSwap]_vars

----------------------------------------------------------------------------
(* Etchings whose first input spends an output of any script *)

MaxCodecRunes == 1

\* the lengths a push announces
CodecPushLens == {0, 1, 19, 20, 21, 31, 32, 33}

\* scripts of one opcode, the byte of a push length and a body of that length, of one
\* byte less or of one byte more, and the scripts shorter than two bytes
CodecScripts ==
  {<<op, len>> \o Rep(Max(len + more - 1, 0), fill) :
     op \in {OP_PUSHBYTES_0, OP_PUSHNUM_1, OP_RETURN},
     len \in CodecPushLens,
     more \in {0, 1, 2},
     fill \in {7, 170}}
  \cup {<<OP_PUSHBYTES_0>>, <<OP_PUSHNUM_1>>}

\* an etching of the next rune whose first input spends an output paid to script and
\* whose second input, an output of ScriptA, carries the commitment
CodecEtchTxs ==
  {[Funded(<<script, ScriptA>>, <<OpReturnScript, ScriptA>>,
           Some(Stone(<<>>, Some([rune |-> Some(RuneName + Cardinality(RuneIds)),
                                  premine |-> None,
                                  terms |-> Some(Terms(TRUE, TRUE, None, None))]),
                      None, None, None, None)))
      EXCEPT !.commit = Some(1)] : script \in CodecScripts}

EtchCodec ==
  /\ Cardinality(RuneIds) < MaxCodecRunes
  /\ \E tx \in CodecEtchTxs : IndexRunes(tx, FALSE)

NextCodec == EtchCodec

SpecCodec == Init /\ [][NextCodec]_vars

----------------------------------------------------------------------------
(* A block of minter and blacklist updates whose entries are of any kind and length *)

MaxEntryTx == 3

\* a kind byte that is no CompactScriptKind
KindUnknown == P2WSH + 1

\* entries [kind][body] of the three kinds and of an unknown kind, with a body of 5, 20,
\* 32 or 33 bytes
UpdateEntries ==
  {Entry(kind, body) : kind \in {P2TR, P2WSH, KindUnknown},
                       body \in {Rep(5, 9), KeyT, KeyU, Rep(33, 9)}}

\* an etching by ScriptA of a rune with both flags
EntryEtchTxs ==
  {[Signed(ScriptA, <<OpReturnScript, ScriptA>>,
           Some(Stone(<<>>, Some([rune |-> Some(RuneName), premine |-> None,
                                  terms |-> Some(Terms(TRUE, TRUE, None, None))]),
                      None, None, None, None)))
      EXCEPT !.commit = Some(0)]}

\* one list of one entry, sent by the holder of the authorities or by another script
EntryUpdateTxs ==
  {Signed(signer, <<OpReturnScript, signer>>,
          Some(Stone(<<>>, None, Some(id), None, None, Some(updates)))) :
     signer \in {ScriptA, ScriptB}, id \in RuneIds,
     updates \in UNION {{Updates(Some(<<entry>>), None, None, None),
                         Updates(None, Some(<<entry>>), None, None),
                         Updates(None, None, Some(<<entry>>), None),
                         Updates(None, None, None, Some(<<entry>>))} :
                          entry \in UpdateEntries}}

EtchEntries ==
  /\ RuneIds = {}
  /\ \E tx \in EntryEtchTxs : IndexRunes(tx, FALSE)

UpdateEntry ==
  /\ tx_index <= MaxEntryTx
  /\ \E tx \in EntryUpdateTxs : IndexRunes(tx, FALSE)

NextEntries == EtchEntries \/ UpdateEntry

SpecEntries == Init /\ [][NextEntries]_vars

----------------------------------------------------------------------------
(* Etchings of any terms whose runestone also addresses the rune being etched *)

MaxEtchRunes == 1

MaxEtchTx == 2

P2WSHScript(body) == <<OP_PUSHBYTES_0, 32>> \o body

\* the scripts of the output the first input spends: of the three forms, of no form,
\* and none
EtchFirstScripts ==
  {ScriptA, ScriptT, P2WSHScript(KeyU), <<OP_PUSHNUM_1, 20>> \o KeyT, OpReturnScript}

EtchAnyTerms ==
  {None} \cup {Some(Terms(allow_minting, allow_blacklisting, None, None)) :
                 allow_minting \in BOOLEAN, allow_blacklisting \in BOOLEAN}

\* the runestone of an etching with a premine of 10: alone, with an edict for the rune
\* being etched (id 0:0), with a SetAuthority or with a blacklist update
EtchStones(etching) ==
  {Stone(<<>>, Some(etching), None, None, None, None),
   Stone(<<[id |-> ZeroId, amount |-> 12, output |-> 1]>>, Some(etching), None, None,
         None, None),
   Stone(<<>>, Some(etching), None, None, Some(SetAuthority(mask(Master), KeyB)), None),
   Stone(<<>>, Some(etching), None, None, None,
         Some(Updates(None, None, Some(<<Entry(P2TR, KeyU)>>), None)))}

\* an etching of the next rune whose first input spends an output paid to script and
\* whose second input, an output of ScriptA, carries the commitment; the artifact is a
\* runestone or a cenotaph
EtchAnyTxs ==
  {[Funded(<<script, ScriptA>>, <<OpReturnScript, ScriptA>>, Some(artifact))
      EXCEPT !.commit = Some(1)] :
     script \in EtchFirstScripts,
     artifact \in
       UNION {EtchStones([rune |-> Some(RuneName + Cardinality(RuneIds)),
                          premine |-> Some(10), terms |-> terms])
              \cup {Cenotaph(Some([rune |-> Some(RuneName + Cardinality(RuneIds)),
                                   premine |-> Some(10), terms |-> terms]), None)} :
                terms \in EtchAnyTerms}}

\* the script of the first input asks for 12 units of a rune, more than any balance
EtchRequestTxs ==
  {Funded(<<script>>, <<OpReturnScript, ScriptB>>,
          Some(Stone(<<[id |-> id, amount |-> 12, output |-> 1]>>, None, None, None,
                     None, None))) :
     script \in {ScriptA, ScriptT}, id \in RuneIds}

EtchAny ==
  /\ Cardinality(RuneIds) < MaxEtchRunes
  /\ \E tx \in EtchAnyTxs : IndexRunes(tx, FALSE)

RequestEtched ==
  /\ tx_index <= MaxEtchTx
  /\ \E tx \in EtchRequestTxs : IndexRunes(tx, FALSE)

NextEtch == EtchAny \/ RequestEtched

SpecEtch == Init /\ [][NextEtch]_vars

----------------------------------------------------------------------------
(* A block of blacklist requests for runes with and without the Blacklist flag *)

MaxInertTx == 3

\* an etching by ScriptA of a rune with the Mint flag, with or without the Blacklist
\* flag, whose premine of 10 goes to ScriptU
InertEtchTxs ==
  {[Signed(ScriptA, <<OpReturnScript, ScriptU>>,
           Some(Stone(<<>>, Some([rune |-> Some(RuneName), premine |-> Some(10),
                                  terms |-> Some(Terms(TRUE, allow_blacklisting,
                                                       None, None))]),
                      None, None, None, None)))
      EXCEPT !.commit = Some(0)] : allow_blacklisting \in BOOLEAN}

\* ScriptA, whose script is in the three slots, asks for the Blacklist authority alone
\* or together with Master, or sends a blacklist or an unblacklist update for ScriptU
InertRequestTxs ==
  {Signed(ScriptA, <<OpReturnScript, ScriptA>>, Some(stone)) :
     stone \in UNION {
       {Stone(<<>>, None, Some(id), None,
              Some(SetAuthority(mask(Blacklist), KeyA)), None),
        Stone(<<>>, None, Some(id), None,
              Some(SetAuthority(mask(Blacklist) + mask(Master), KeyA)), None),
        Stone(<<>>, None, Some(id), None, None,
              Some(Updates(None, None, Some(<<Entry(P2TR, KeyU)>>), None))),
        Stone(<<>>, None, Some(id), None, None,
              Some(Updates(None, None, None, Some(<<Entry(P2TR, KeyU)>>))))} :
         id \in RuneIds}}

\* a holder spends its runes to ScriptU and ScriptT, with or without an edict
InertSpendTxs ==
  {Spending(<<o>>, <<OpReturnScript, ScriptU, ScriptT>>,
            Some(Stone(edicts, None, None, None, None, None))) :
     o \in Holders,
     edicts \in {<<>>} \cup UNION {{<<[id |-> id, amount |-> 4, output |-> output]>> :
                                      output \in {1, 2}} : id \in RuneIds}}

EtchInert ==
  /\ RuneIds = {}
  /\ \E tx \in InertEtchTxs : IndexRunes(tx, FALSE)

RequestInert ==
  /\ tx_index <= MaxInertTx
  /\ \E tx \in InertRequestTxs : IndexRunes(tx, FALSE)

SpendInert ==
  /\ tx_index <= MaxInertTx + 1
  /\ \E tx \in InertSpendTxs : IndexRunes(tx, FALSE)

NextInert == EtchInert \/ RequestInert \/ SpendInert

SpecInert == Init /\ [][NextInert]_vars

----------------------------------------------------------------------------
(* A block in which minters are listed, removed and blacklisted, and mint *)

MaxRevokeTx == 4

\* an etching by ScriptA of a rune with both flags, without open-mint terms
RevokeEtchTxs ==
  {[Signed(ScriptA, <<OpReturnScript, ScriptA>>,
           Some(Stone(<<>>, Some([rune |-> Some(RuneName), premine |-> None,
                                  terms |-> Some(Terms(TRUE, TRUE, None, None))]),
                      None, None, None, None)))
      EXCEPT !.commit = Some(0)]}

\* ScriptA, the Master, adds or removes a minter entry for the key hash of ScriptT,
\* written as a P2WPKH or as a P2WSH entry, or blacklists ScriptT
RevokeUpdateTxs ==
  {Signed(ScriptA, <<OpReturnScript, ScriptA>>,
          Some(Stone(<<>>, None, Some(id), None, None, Some(updates)))) :
     id \in RuneIds,
     updates \in {Updates(Some(<<EntryTW>>), None, None, None),
                  Updates(Some(<<EntryTS>>), None, None, None),
                  Updates(None, Some(<<EntryTW>>), None, None),
                  Updates(None, Some(<<EntryTS>>), None, None),
                  Updates(None, None, Some(<<EntryTW>>), None)}}

\* a transaction that spends one output of script and asks for 4 units of id with
\* nothing unallocated; index is the number of the transaction
MintRequest(index, script, id) ==
  [input |-> <<FundOutpoint(index, 1)>>, fund |-> <<script>>, commit |-> None,
   output |-> <<OpReturnScript, ScriptU>>,
   artifact |-> Some(Stone(<<[id |-> id, amount |-> 4, output |-> 1]>>,
                           None, None, None, None, None))]

\* ScriptT, ScriptU or ScriptA asks for 4 units, or ScriptT does from the input after
\* the first 10
RevokeMintTxs ==
  {MintRequest(tx_index, script, id) : script \in {ScriptT, ScriptU, ScriptA},
                                       id \in RuneIds}
  \cup {Funded(Rep(AUTHORITY_INPUT_LIMIT, ScriptU) \o <<ScriptT>>,
               <<OpReturnScript, ScriptU>>,
               Some(Stone(<<[id |-> id, amount |-> 4, output |-> 1]>>,
                          None, None, None, None, None))) : id \in RuneIds}

EtchRevoke ==
  /\ RuneIds = {}
  /\ \E tx \in RevokeEtchTxs : IndexRunes(tx, FALSE)

UpdateRevoke ==
  /\ tx_index <= MaxRevokeTx
  /\ \E tx \in RevokeUpdateTxs : IndexRunes(tx, FALSE)

MintRevoke ==
  /\ tx_index <= MaxRevokeTx
  /\ \E tx \in RevokeMintTxs : IndexRunes(tx, FALSE)

NextRevoke == EtchRevoke \/ UpdateRevoke \/ MintRevoke

SpecRevoke == Init /\ [][NextRevoke]_vars

----------------------------------------------------------------------------
(* A block whose edicts carry amounts up to the largest *)

MaxWideTx == 3

\* an etching by ScriptA of a rune with the Mint flag and a premine of 10 to ScriptA
WideEtchTxs ==
  {[Signed(ScriptA, <<OpReturnScript, ScriptA>>,
           Some(Stone(<<>>, Some([rune |-> Some(RuneName), premine |-> Some(10),
                                  terms |-> Some(Terms(TRUE, TRUE, None, None))]),
                      None, None, None, None)))
      EXCEPT !.commit = Some(0)]}

\* one or two edicts of amount 0, 1 or u128::MAX for outputs 1 and 2, for a rune or for
\* an id that names no rune
WideEdicts ==
  UNION {{<<[id |-> id, amount |-> amount, output |-> 1]>>,
          <<[id |-> id, amount |-> amount, output |-> 1],
            [id |-> id, amount |-> amount, output |-> 2]>>} :
           id \in RuneIds \cup {<<Height, 9>>}, amount \in {0, 1, U128_MAX}}

\* ScriptA, holder of the three authorities, or ScriptU sends the edicts
WideTxs ==
  {Signed(signer, <<OpReturnScript, ScriptT, signer>>,
          Some(Stone(edicts, None, None, None, None, None))) :
     signer \in {ScriptA, ScriptU}, edicts \in WideEdicts}

EtchWide ==
  /\ RuneIds = {}
  /\ \E tx \in WideEtchTxs : IndexRunes(tx, FALSE)

SendWide ==
  /\ tx_index <= MaxWideTx
  /\ \E tx \in WideTxs : IndexRunes(tx, FALSE)

NextWide == EtchWide \/ SendWide

SpecWide == Init /\ [][NextWide]_vars

----------------------------------------------------------------------------
(* A block of updates that carry minter lists and blacklist lists together *)

MaxGateTx == 3

\* an etching by ScriptA of a rune with both flags
GateEtchTxs ==
  {[Signed(ScriptA, <<OpReturnScript, ScriptA>>,
           Some(Stone(<<>>, Some([rune |-> Some(RuneName), premine |-> None,
                                  terms |-> Some(Terms(TRUE, TRUE, None, None))]),
                      None, None, None, None)))
      EXCEPT !.commit = Some(0)]}

\* ScriptA hands the Blacklist authority or the Master authority to ScriptB
GateSplitTxs ==
  {Signed(ScriptA, <<OpReturnScript, ScriptA>>,
          Some(Stone(<<>>, None, Some(id), None,
                     Some(SetAuthority(mask(kind), KeyB)), None))) :
     id \in RuneIds, kind \in {Blacklist, Master}}

\* a list of the one entry, or no list
OneOrNone(entry) == {None, Some(<<entry>>)}

\* every combination of the four lists, spending ScriptA, ScriptB, both or ScriptU
GateUpdateTxs ==
  {Funded(scripts, <<OpReturnScript, ScriptT>>,
          Some(Stone(<<>>, None, Some(id), None, None,
                     Some(Updates(add_minter, remove_minter, blacklist, unblacklist))))) :
     scripts \in {<<ScriptA>>, <<ScriptB>>, <<ScriptA, ScriptB>>, <<ScriptU>>},
     id \in RuneIds,
     add_minter \in OneOrNone(EntryTW), remove_minter \in OneOrNone(EntryTW),
     blacklist \in OneOrNone(EntryU), unblacklist \in OneOrNone(EntryU)}

EtchGate ==
  /\ RuneIds = {}
  /\ \E tx \in GateEtchTxs : IndexRunes(tx, FALSE)

SplitGate ==
  /\ tx_index <= MaxGateTx
  /\ \E tx \in GateSplitTxs : IndexRunes(tx, FALSE)

UpdateGate ==
  /\ tx_index <= MaxGateTx
  /\ \E tx \in GateUpdateTxs : IndexRunes(tx, FALSE)

NextGate == EtchGate \/ SplitGate \/ UpdateGate

SpecGate == Init /\ [][NextGate]_vars

----------------------------------------------------------------------------
(* A block of edicts that distribute over all outputs *)

MaxDistTx == 3

\* an etching by ScriptA of a rune with the Blacklist flag whose premine of 10 or 11
\* goes to ScriptA
DistEtchTxs ==
  {[Signed(ScriptA, <<OpReturnScript, ScriptA>>,
           Some(Stone(<<>>, Some([rune |-> Some(RuneName), premine |-> Some(p),
                                  terms |-> Some(Terms(FALSE, TRUE, None, None))]),
                      None, None, None, None)))
      EXCEPT !.commit = Some(0)] : p \in {10, 11}}

\* ScriptA blacklists ScriptU
DistBlacklistTxs ==
  {Signed(ScriptA, <<OpReturnScript, ScriptA>>,
          Some(Stone(<<>>, None, Some(id), None, None,
                     Some(Updates(None, None, Some(<<Entry(P2TR, KeyU)>>), None))))) :
     id \in RuneIds}

\* outputs with three destinations, with two around an OP_RETURN, and without any
DistLayouts ==
  {<<OpReturnScript, ScriptT, ScriptU, ScriptB>>, <<ScriptT, OpReturnScript, ScriptU>>,
   <<OpReturnScript>>}

\* one edict, or an edict to output 0 followed by one: for the rune or for id 0:0, of
\* amount 0, 3, 4 or 20, for the output after the last (distribute) or the one after
DistEdicts(outputs) ==
  UNION {{<<[id |-> id, amount |-> amount, output |-> output]>>,
          <<[id |-> id, amount |-> 2, output |-> 0],
            [id |-> id, amount |-> amount, output |-> output]>>} :
           id \in RuneIds \cup {ZeroId}, amount \in {0, 3, 4, 20},
           output \in {Len(outputs), Len(outputs) + 1}}

\* a holder spends its runes
DistTxs ==
  UNION {{Spending(<<o>>, outputs, Some(Stone(edicts, None, None, None, None, None))) :
            o \in Holders, edicts \in DistEdicts(outputs)} : outputs \in DistLayouts}

EtchDist ==
  /\ RuneIds = {}
  /\ \E tx \in DistEtchTxs : IndexRunes(tx, FALSE)

BlacklistDist ==
  /\ tx_index <= MaxDistTx - 1
  /\ rune_id_to_blacklist = EmptyMap
  /\ \E tx \in DistBlacklistTxs : IndexRunes(tx, FALSE)

SendDist ==
  /\ tx_index <= MaxDistTx
  /\ last.log = <<>>
  /\ \E tx \in DistTxs : IndexRunes(tx, FALSE)

NextDist == EtchDist \/ BlacklistDist \/ SendDist

SpecDist == Init /\ [][NextDist]_vars

----------------------------------------------------------------------------
(* A block of cenotaphs and of transactions whose outputs are OP_RETURN *)

MaxBurnTx == 3

\* outputs without a destination, with one, and with one behind an OP_RETURN
BurnLayouts ==
  {<<OpReturnScript>>, <<OpReturnScript, OpReturnScript>>, <<OpReturnScript, ScriptT>>,
   <<ScriptT>>}

\* no edict, or one of 4 units for output 0 or output 1
BurnEdicts ==
  {<<>>} \cup {<<[id |-> id, amount |-> 4, output |-> output]>> :
                 id \in RuneIds, output \in {0, 1}}

\* a holder spends its runes without a runestone, with a cenotaph, or with a runestone
\* whose pointer is absent, names output 0 or 1, or is out of range
BurnTxs ==
  UNION {{Spending(<<o>>, outputs, artifact) :
            o \in Holders,
            artifact \in {None}
               \cup {Some(Cenotaph(None, mint_id)) :
                       mint_id \in {None} \cup {Some(id) : id \in RuneIds}}
               \cup {Some(Stone(edicts, None, None, pointer, None, None)) :
                       edicts \in BurnEdicts,
                       pointer \in {None, Some(0), Some(1), Some(5)}}} :
         outputs \in BurnLayouts}

EtchBurn ==
  /\ RuneIds = {}
  /\ \E tx \in EtchTxs : IndexRunes(tx, FALSE)

SendBurn ==
  /\ tx_index <= MaxBurnTx
  /\ \E tx \in BurnTxs : IndexRunes(tx, FALSE)

NextBurn == EtchBurn \/ SendBurn

SpecBurn == Init /\ [][NextBurn]_vars

----------------------------------------------------------------------------
(* A block of requests whose target is named by an edict, the mint field or an etching *)

MaxTargetTx == 3

MaxTargetRunes == 2

\* an etching by ScriptA of the next named rune, with the Mint and the Blacklist flag
TargetEtchTxs ==
  {[Signed(ScriptA, <<OpReturnScript, ScriptA>>,
           Some(Stone(<<>>, Some([rune |-> Some(RuneName + Cardinality(RuneIds)),
                                  premine |-> None,
                                  terms |-> Some(Terms(TRUE, TRUE, None, None))]),
                      None, None, None, None)))
      EXCEPT !.commit = Some(0)]}

\* no edict, one edict, or two edicts for different runes; an id may be 0:0
TargetEdicts ==
  {<<>>}
  \cup {<<[id |-> id, amount |-> 0, output |-> 1]>> : id \in RuneIds \cup {ZeroId}}
  \cup {<<[id |-> a, amount |-> 0, output |-> 1], [id |-> b, amount |-> 0, output |-> 1]>> :
          a \in RuneIds \cup {ZeroId}, b \in RuneIds}

\* ScriptA asks to hand Mint to ScriptB, to add the minter ScriptT, or both; the
\* runestone may carry edicts, a mint field and the etching of a reserved name
TargetTxs ==
  {Signed(ScriptA, <<OpReturnScript, ScriptA>>,
          Some(Stone(edicts, etching, mint_id, None, set_authority, authority))) :
     edicts \in TargetEdicts,
     etching \in {None, Some([rune |-> None, premine |-> None,
                              terms |-> Some(Terms(TRUE, TRUE, None, None))])},
     mint_id \in {None} \cup {Some(id) : id \in RuneIds},
     set_authority \in {None, Some(SetAuthority(mask(Mint), KeyB))},
     authority \in {None, Some(Updates(Some(<<EntryTW>>), None, None, None))}}

EtchTarget ==
  /\ tx_index <= MaxTargetTx
  /\ Cardinality(RuneIds) < MaxTargetRunes
  /\ Cardinality(RuneIds) = tx_index - 1
  /\ \E tx \in TargetEtchTxs : IndexRunes(tx, FALSE)

\* one request follows the etchings
RequestTarget ==
  /\ tx_index <= MaxTargetTx
  /\ RuneIds # {}
  /\ IsSome(last.tx.commit)
  /\ \E tx \in TargetTxs : IndexRunes(tx, FALSE)

NextTarget == EtchTarget \/ RequestTarget

SpecTarget == Init /\ [][NextTarget]_vars

----------------------------------------------------------------------------
(* Script lookups whose order of access is recorded, with a node that may fail *)

MaxLruTx == 2

\* the outpoints looked up: known and unknown transactions, vouts in and out of range
LruOutpoints == {<<t, v>> : t \in 1..MaxLruTx + 1, v \in 0..1}

\* the outputs of the transactions the node comes to know
LruOutputs == {<<ScriptA, OpReturnScript>>, <<ScriptT>>, <<LongScript>>}

\* the node learns of a transaction
NodeConfirmsLru ==
  /\ tx_index <= MaxLruTx
  /\ \E outputs \in LruOutputs : chain' = MapInsert(chain, tx_index, outputs)
  /\ tx_index' = tx_index + 1
  /\ UNCHANGED <<outpoint_to_balances, id_to_entry, rune_to_id, rune_id_to_authority_flags,
                 rune_id_to_authority_scripts, rune_id_to_minters, rune_id_to_blacklist,
                 rune_id_to_supply_extra, burned, script_cache, authority_cache, spent,
                 last>>

\* one call of get_script_pubkey, the node answering or failing. last.checks records
\* the call, its outcome, the script the node knows and the cache before it;
\* last.reads lists the keys whose lookup gave a script, the last one first
LookupLru ==
  /\ \E outpoint \in LruOutpoints, failing \in BOOLEAN :
     \E r \in {get_script_pubkey_rpc(World, outpoint, failing)} :
        /\ script_cache' = r.w.script_cache
        /\ last' = [NoLocals EXCEPT
                      !.checks = <<[kind |-> "Script", outpoint |-> outpoint,
                                    val |-> r.val, err |-> r.err, failing |-> failing,
                                    known |-> ClientScript(chain, outpoint),
                                    before |-> script_cache]>>,
                      !.reads = IF IsSome(r.val)
                                THEN <<outpoint>> \o SeqRemove(last.reads, outpoint)
                                ELSE last.reads]
  /\ UNCHANGED <<outpoint_to_balances, id_to_entry, rune_to_id, rune_id_to_authority_flags,
                 rune_id_to_authority_scripts, rune_id_to_minters, rune_id_to_blacklist,
                 rune_id_to_supply_extra, burned, authority_cache, chain, spent, tx_index>>

NextLru == NodeConfirmsLru \/ LookupLru

SpecLru == Init /\ [][NextLru]_vars

----------------------------------------------------------------------------
(* A block indexed by two updaters whose caches have different budgets *)

MaxTwinTx == 3

MaxTwinRunes == 2

\* the budget of both caches of the second updater
TwinBudget == 1

\* an etching by ScriptA of the next named rune. Its runestone may list the minter
\* ScriptT for the rune being etched and may carry an edict for a rune or for id 0:0.
TwinEtchTxs ==
  {[Signed(ScriptA, <<OpReturnScript, ScriptA>>,
           Some(Stone(edicts,
                      Some([rune |-> Some(RuneName + Cardinality(RuneIds)),
                            premine |-> None,
                            terms |-> Some(Terms(TRUE, TRUE, None, None))]),
                      None, None, None, authority)))
      EXCEPT !.commit = Some(0)] :
     edicts \in {<<>>} \cup {<<[id |-> id, amount |-> 0, output |-> 1]>> :
                               id \in RuneIds \cup {ZeroId}},
     authority \in {None, Some(Updates(Some(<<EntryTW>>), None, None, None))}}

\* ScriptA or ScriptB asks to hand Mint to ScriptB, to list the minter ScriptT or to
\* blacklist ScriptU for a rune, with or without an edict of 4 units for the rune
TwinRequestTxs ==
  {Signed(signer, <<OpReturnScript, ScriptT>>,
          Some(Stone(IF edict THEN <<[id |-> id, amount |-> 4, output |-> 1]>> ELSE <<>>,
                     None, Some(id), None, set_authority, authority))) :
     signer \in {ScriptA, ScriptB},
     id \in RuneIds,
     edict \in BOOLEAN,
     set_authority \in {None, Some(SetAuthority(mask(Mint), KeyB))},
     authority \in {None, Some(Updates(Some(<<EntryTW>>), None, None, None)),
                    Some(Updates(None, None, Some(<<EntryU>>), None))}}

\* the world of the second updater: the tables and caches it has come to, over the
\* same node; before the first transaction its tables are empty like the first's
Shadow ==
  IF tx_index = 1
  THEN [World EXCEPT !.script_cache = ScriptCacheNew(TwinBudget),
                     !.authority_cache = ContextCacheNew(TwinBudget)]
  ELSE [last.shadow EXCEPT !.chain = chain, !.checks = <<>>, !.reads = <<>>]

\* both updaters index the next transaction of the block; last.shadow is the world of
\* the second
IndexTwin(tx) ==
  \E known \in {MapInsert(MapInsert(chain, 0 - tx_index, tx.fund), tx_index, tx.output)} :
  \E r \in {index_runes([World EXCEPT !.chain = known], tx_index, tx, FALSE)} :
  \E s \in {index_runes([Shadow EXCEPT !.chain = known], tx_index, tx, FALSE)} :
     /\ outpoint_to_balances' = r.w.outpoint_to_balances
     /\ id_to_entry' = r.w.id_to_entry
     /\ rune_to_id' = r.w.rune_to_id
     /\ rune_id_to_authority_flags' = r.w.rune_id_to_authority_flags
     /\ rune_id_to_authority_scripts' = r.w.rune_id_to_authority_scripts
     /\ rune_id_to_minters' = r.w.rune_id_to_minters
     /\ rune_id_to_blacklist' = r.w.rune_id_to_blacklist
     /\ rune_id_to_supply_extra' = r.w.rune_id_to_supply_extra
     /\ burned' = r.w.burned
     /\ script_cache' = r.w.script_cache
     /\ authority_cache' = r.w.authority_cache
     /\ chain' = known
     /\ spent' = spent \cup Range(tx.input)
     /\ tx_index' = tx_index + 1
     /\ last' = r.locals @@ [shadow |-> s.w]

EtchTwin ==
  /\ tx_index <= MaxTwinTx
  /\ Cardinality(RuneIds) < MaxTwinRunes
  /\ \E tx \in TwinEtchTxs : IndexTwin(tx)

RequestTwin ==
  /\ tx_index <= MaxTwinTx
  /\ \E tx \in TwinRequestTxs : IndexTwin(tx)

NextTwin == EtchTwin \/ RequestTwin

SpecTwin == Init /\ [][NextTwin]_vars

----------------------------------------------------------------------------
(* A block of requests for runes whose authority slots are empty *)

MaxSlotTx == 3

\* a script of no compact form
FormlessScript == <<OP_PUSHNUM_1, 20>> \o KeyT

\* an id at which no rune is etched
NeverEtchedId == <<Height, MaxSlotTx + 6>>

\* an etching with the Mint and the Blacklist flag whose first input spends an output
\* of ScriptA or of the formless script, by a runestone or by a cenotaph; the second
\* input, an output of ScriptA, carries the commitment
SlotEtchTxs ==
  {[Funded(<<script, ScriptA>>, <<OpReturnScript, ScriptA>>, Some(artifact))
      EXCEPT !.commit = Some(1)] :
     script \in {ScriptA, FormlessScript},
     artifact \in
       {Stone(<<>>, Some([rune |-> Some(RuneName), premine |-> None,
                          terms |-> Some(Terms(TRUE, TRUE, None, None))]),
              None, None, None, None),
        Cenotaph(Some([rune |-> Some(RuneName), premine |-> None,
                       terms |-> Some(Terms(TRUE, TRUE, None, None))]), None)}}

\* a request for rune id: authorities to be handed to ScriptB or to an empty body, a
\* minter to be listed, ScriptU to be blacklisted, or 12 units
SlotStones(id) ==
  {Stone(<<>>, None, Some(id), None, Some(SetAuthority(authorities, body)), None) :
     authorities \in {mask(Mint), mask(Blacklist), mask(Master)},
     body \in {KeyB, <<>>}}
  \cup {Stone(<<>>, None, Some(id), None,
              Some(SetAuthority(mask(Mint) + mask(Master), KeyB)), None)}
  \cup {Stone(<<>>, None, Some(id), None, None,
              Some(Updates(Some(<<EntryTW>>), None, None, None))),
        Stone(<<>>, None, Some(id), None, None,
              Some(Updates(None, None, Some(<<EntryU>>), None))),
        Stone(<<[id |-> id, amount |-> 12, output |-> 1]>>, None, None, None, None, None)}

\* ScriptA or the formless script sends a request for an etched rune or for the id at
\* which none is etched
SlotRequestTxs ==
  {Funded(<<script>>, <<OpReturnScript, ScriptB>>, Some(stone)) :
     script \in {ScriptA, FormlessScript},
     stone \in UNION {SlotStones(id) : id \in RuneIds \cup {NeverEtchedId}}}

EtchSlot ==
  /\ RuneIds = {}
  /\ tx_index = 1
  /\ \E tx \in SlotEtchTxs : IndexRunes(tx, FALSE)

RequestSlot ==
  /\ tx_index <= MaxSlotTx
  /\ RuneIds # {}
  /\ \E tx \in SlotRequestTxs : IndexRunes(tx, FALSE)

NextSlot == EtchSlot \/ RequestSlot

SpecSlot == Init /\ [][NextSlot]_vars

----------------------------------------------------------------------------
(* What the tables record, read independently of the caches *)

RECURSIVE SumOver(_, _)
SumOver(S, f) ==
  IF S = {} THEN 0
  ELSE LET x == CHOOSE y \in S : TRUE IN f[x] + SumOver(S \ {x}, f)

\* the amount of rune id in a balance row
RowAmount(row, id) ==
  SumSeq([i \in 1..Len(row) |-> IF row[i][1] = id THEN row[i][2] ELSE 0])

\* the amount of rune id that table records under the outpoints of S
Recorded(table, S, id) ==
  SumOver(S \cap DOMAIN table, [o \in S \cap DOMAIN table |-> RowAmount(table[o], id)])

\* a set of multimap entries holds an entry that reconstructs to script
RowBlacklists(entries, script) ==
  \E entry \in entries : decode_entry_to_script(entry) = Some(script)

\* the outpoints of the outputs of the last transaction
OutputsOf(locals) == {<<locals.txid, v - 1>> : v \in 1..Len(locals.tx.output)}

\* the amount of rune id the last transaction created by its premine and open mint
CreatedBy(locals, entries, id) ==
  (IF IsSome(locals.etched) /\ Unwrap(locals.etched).id = id /\ Has(entries, id)
   THEN entries[id].premine ELSE 0)
  + (IF IsSome(locals.minted) /\ Unwrap(locals.minted)[1] = id
     THEN Unwrap(locals.minted)[2] ELSE 0)

----------------------------------------------------------------------------
(* Properties of Spec *)

\* C1: for every rune id and every transaction, the balances removed from the input
\* rows plus the premine, the open mint and the authority-mint shortfall equal the
\* balances written to the output rows plus the amount added to burned plus the
\* locked amounts re-inserted under the consumed inputs.
C1_BalanceConservation ==
  [][\A id \in DOMAIN id_to_entry' :
       Recorded(outpoint_to_balances, Range(last'.tx.input), id)
         + CreatedBy(last', id_to_entry', id)
         + (MapGetOr(rune_id_to_supply_extra', id, 0) - MapGetOr(rune_id_to_supply_extra, id, 0))
       = Recorded(outpoint_to_balances', OutputsOf(last'), id)
         + (MapGetOr(burned', id, 0) - MapGetOr(burned, id, 0))
         + Recorded(outpoint_to_balances', Range(last'.tx.input), id)]_vars

\* C2: when the unallocated amount of a rune is swept to a default output whose script
\* the rune blacklists, the amount is not credited to that output and is not lost to
\* the sender: what the table records of the rune, plus what was burned, is what it
\* was before plus what the transaction created.
C2_SenderRetains ==
  [][\A id \in DOMAIN last'.blocked :
       /\ Recorded(outpoint_to_balances', OutputsOf(last'), id)
            <= Recorded(outpoint_to_balances, Range(last'.tx.input), id)
                 + CreatedBy(last', id_to_entry', id) - last'.blocked[id]
       /\ Recorded(outpoint_to_balances', DOMAIN outpoint_to_balances', id)
            + MapGetOr(burned', id, 0)
          = Recorded(outpoint_to_balances, DOMAIN outpoint_to_balances, id)
            + MapGetOr(burned, id, 0)
            + CreatedBy(last', id_to_entry', id)]_vars

\* the edicts of the last transaction that process_edicts does not skip
RunnableEdicts(locals) ==
  IF IsSome(locals.tx.artifact) /\ Unwrap(locals.tx.artifact).type = "Runestone"
  THEN SelectSeq(Unwrap(locals.tx.artifact).edicts,
                 LAMBDA edict : /\ edict.output <= Len(locals.tx.output)
                                /\ (edict.id # ZeroId \/ IsSome(locals.etched)))
  ELSE <<>>

\* C3: an allocation step of an edict whose destination script is blacklisted for the
\* edict's rune leaves unallocated[id] and allocated[output][id] as they were, and
\* every edict of the transaction that is not skipped is processed, whatever the
\* steps of the edicts before it did.
C3_BlacklistedAllocationRejected ==
  /\ Len(last.log) = Len(RunnableEdicts(last))
  /\ \A i \in 1..Len(last.log) :
       /\ last.log[i].amount = RunnableEdicts(last)[i].amount
       /\ \A j \in 1..Len(last.log[i].steps) :
            LET step == last.log[i].steps[j]
            IN RowBlacklists(MapGetOr(rune_id_to_blacklist, last.log[i].id, {}),
                             last.tx.output[step.output + 1])
               => /\ step.unallocated_after = step.unallocated_before
                  /\ step.allocated_after = step.allocated_before

\* an edict was rejected at a blacklisted destination and a later edict of the same
\* transaction allocated
C3_Witness ==
  \E i \in 1..Len(last.log) : \E k \in 1..Len(last.log) :
     /\ i < k
     /\ \E j \in 1..Len(last.log[i].steps) :
          /\ RowBlacklists(MapGetOr(rune_id_to_blacklist, last.log[i].id, {}),
                           last.tx.output[last.log[i].steps[j].output + 1])
          /\ last.log[i].steps[j].unallocated_before > 0
     /\ \E j \in 1..Len(last.log[k].steps) :
          last.log[k].steps[j].allocated_after > last.log[k].steps[j].allocated_before

----------------------------------------------------------------------------
(* Properties of SpecLock *)

\* the pairs of a balance row whose rune blacklists script, per the blacklist table
LockedPairs(row, blacklist, script) ==
  SelectSeq(row, LAMBDA pair : /\ IsSome(script)
                               /\ RowBlacklists(MapGetOr(blacklist, pair[1], {}),
                                                Unwrap(script)))

\* the amount of rune id among the pairs of a balance row whose rune does not
\* blacklist script
ReleasedAmount(row, blacklist, script, id) ==
  RowAmount(row, id) - RowAmount(LockedPairs(row, blacklist, script), id)

----------------------------------------------------------------------------
(* Properties of SpecCheck *)

\* input k (1-based) of the last transaction authorizes against the script of a slot:
\* its prevout script is resolvable, is not blacklisted per the rows the table held at
\* the call, and equals the script
InputAuthorizes(k, blacklist, script) ==
  LET prevout == ClientScript(chain, last.tx.input[k])
  IN /\ IsSome(prevout)
     /\ ~RowBlacklists(blacklist, Unwrap(prevout))
     /\ Unwrap(prevout) = script

C5_WitnessBeyondLimit ==
  \E n \in 1..Len(last.checks) :
     /\ ~last.checks[n].val
     /\ Len(last.tx.input) > AUTHORITY_INPUT_LIMIT
     /\ IsSome(last.checks[n].slot)
     /\ InputAuthorizes(AUTHORITY_INPUT_LIMIT + 1, last.checks[n].blacklist,
                        Unwrap(Unwrap(last.checks[n].slot).script))

\* a call found the slot absent
C5_WitnessAbsentSlot ==
  \E n \in 1..Len(last.checks) : ~IsSome(last.checks[n].slot)

\* a call returned FALSE because the only input carrying the script is blacklisted
C5_WitnessBlacklisted ==
  \E n \in 1..Len(last.checks) :
     /\ ~last.checks[n].val
     /\ IsSome(last.checks[n].slot)
     /\ ClientScript(chain, last.tx.input[1]) = Unwrap(last.checks[n].slot).script
     /\ RowBlacklists(last.checks[n].blacklist, Unwrap(Unwrap(last.checks[n].slot).script))

----------------------------------------------------------------------------
(* Properties of SpecMint *)

\* the context of a rune as the tables of w hold it
TableContext(w, id) == load_context(w, id)

\* the scripts that authorize a mint beyond balance for a rune per the tables of w: the
\* scripts of the Mint and Master slots and of the listed minters
MintingScripts(w, id) ==
  LET context == TableContext(w, id)
  IN {Unwrap(Unwrap(context.scripts[kind]).script) :
        kind \in {k \in {Mint, Master} : /\ IsSome(context.scripts[k])
                                         /\ IsSome(Unwrap(context.scripts[k]).script)}}
     \cup {Unwrap(context.minters[i].script) :
             i \in {j \in 1..Len(context.minters) : IsSome(context.minters[j].script)}}

\* the transaction tx may mint rune id beyond balance per the tables of w (chain ch)
MayMintBeyond(w, ch, tx, id) ==
  /\ contains(TableContext(w, id).flags, Mint)
  /\ \E k \in 1..Min(Len(tx.input), AUTHORITY_INPUT_LIMIT) :
       LET prevout == ClientScript(ch, tx.input[k])
       IN /\ IsSome(prevout)
          /\ ~RowBlacklists(MapGetOr(w.rune_id_to_blacklist, id, {}), Unwrap(prevout))
          /\ Unwrap(prevout) \in MintingScripts(w, id)

\* what the steps of an edict added to the outputs
AllocatedBy(entry) ==
  SumSeq([j \in 1..Len(entry.steps) |->
            entry.steps[j].allocated_after - entry.steps[j].allocated_before])

\* the shortfalls of the edicts of a log for rune id whose authorization passed
Shortfalls(log, id) ==
  SumSeq([i \in 1..Len(log) |->
            IF /\ log[i].id = id
               /\ log[i].has_mint_flag
               /\ (log[i].check_auth \/ log[i].check_minter)
               /\ log[i].amount > log[i].balance
            THEN log[i].amount - log[i].balance ELSE 0])

\* C6: an edict for a rune with the Mint flag that asks for more than unallocated[id]
\* and passes check_authority(Mint) or check_is_minter raises unallocated[id] to its
\* amount; the table's supply_extra(id) grows by exactly the shortfalls of such edicts,
\* each measured on the balance the edict found, and the premine and the number of open
\* mints of the entry change only by the open mint of the transaction.
C6_AuthorityMint ==
  [][/\ \A i \in 1..Len(last'.log) :
          LET entry == last'.log[i]
          IN /\ contains(TableContext(World, entry.id).flags, Mint)
             /\ entry.amount > entry.balance
             /\ (entry.check_auth \/ entry.check_minter)
             => /\ entry.has_mint_flag
                /\ entry.raised = entry.amount
                /\ entry.delta = entry.amount - entry.balance
     /\ \A id \in DOMAIN id_to_entry :
          /\ MapGetOr(rune_id_to_supply_extra', id, 0)
             = MapGetOr(rune_id_to_supply_extra, id, 0) + Shortfalls(last'.log, id)
          /\ id_to_entry'[id].premine = id_to_entry[id].premine
          /\ id_to_entry'[id].mints
             = id_to_entry[id].mints
               + (IF IsSome(last'.minted) /\ Unwrap(last'.minted)[1] = id THEN 1 ELSE 0)
    ]_vars

\* an edict after an open mint of the same transaction minted its shortfall beyond the
\* open mint's amount, on the Mint authority alone
C6_Witness ==
  /\ IsSome(last.minted)
  /\ \E i \in 1..Len(last.log) :
       /\ last.log[i].balance = Unwrap(last.minted)[2]
       /\ last.log[i].balance > 0
       /\ last.log[i].delta = last.log[i].amount - last.log[i].balance
       /\ last.log[i].delta > 0
       /\ MapGetOr(rune_id_to_supply_extra, last.log[i].id, 0) >= last.log[i].delta

\* an edict minted beyond balance on the Mint authority although the transaction is
\* neither the Master nor a listed minter
C6_WitnessMintAuthority ==
  \E i \in 1..Len(last.log) :
     /\ last.log[i].check_auth /\ ~last.log[i].check_minter
     /\ last.log[i].delta > 0

\* C7: when the rune lacks the Mint flag, or no resolvable, non-blacklisted prevout
\* among the first 10 inputs carries the script of the Mint slot, of the Master slot or
\* of a listed minter, no edict raises unallocated[id], no edict allocates more than
\* the balance it found, and supply_extra(id) is unchanged.
C7_UnauthorizedMint ==
  [][\A i \in 1..Len(last'.log) :
       LET entry == last'.log[i]
       IN ~MayMintBeyond(World, chain', last'.tx, entry.id)
          => /\ entry.delta = 0
             /\ entry.raised = entry.balance
             /\ AllocatedBy(entry) <= entry.balance
             /\ (entry.balance = 0 => AllocatedBy(entry) = 0)
             /\ MapGetOr(rune_id_to_supply_extra', entry.id, 0)
                = MapGetOr(rune_id_to_supply_extra, entry.id, 0)]_vars

\* an edict for a rune with the Mint flag and a listed minter asked for 4 with nothing
\* unallocated, in a transaction that may not mint, and allocated nothing
C7_Witness ==
  \E i \in 1..Len(last.log) :
     /\ last.log[i].has_mint_flag
     /\ ~last.log[i].check_auth /\ ~last.log[i].check_minter
     /\ last.log[i].amount = 4
     /\ last.log[i].balance = 0
     /\ last.log[i].steps = <<>>
     /\ MapGetOr(rune_id_to_minters, last.log[i].id, {}) # {}

\* Index::get_supply_extra, the supply_extra field of the report of a rune: the row of
\* the rune, if there is one
ReportedSupplyExtra(id) ==
  IF Has(rune_id_to_supply_extra, id) THEN Some(rune_id_to_supply_extra[id]) ELSE None

\* some edict of the log minted units of id beyond the balance
AuthorityMinted(log, id) == \E n \in 1..Len(log) : log[n].id = id /\ log[n].delta > 0

\* C23: after every transaction no row of rune_id_to_supply_extra holds 0 and
\* set_supply_extra(id, 0) changes nothing; a rune is created without a row, and a
\* transaction without an authority mint of a rune leaves its report as it was, so a
\* rune that never had an authority mint reports supply_extra = None.
C23_SupplyExtraZeroIsAbsent ==
  [][\A id \in RuneIds' :
       /\ Has(rune_id_to_supply_extra', id) => rune_id_to_supply_extra'[id] # 0
       /\ set_supply_extra(World', id, 0) = World'
       /\ ~AuthorityMinted(last'.log, id)
            => ReportedSupplyExtra(id)' = IF id \in RuneIds THEN ReportedSupplyExtra(id)
                                          ELSE None]_vars

\* an edict for a rune with the Mint flag that asked for more than the balance without
\* authority: the rune reports None
C23_Witness ==
  \E id \in RuneIds :
    /\ last.log # <<>>
    /\ last.log[1].id = id
    /\ last.log[1].has_mint_flag
    /\ last.log[1].amount > last.log[1].balance
    /\ last.log[1].delta = 0
    /\ ReportedSupplyExtra(id) = None

\* an authority mint: the rune reports what was minted beyond the balance
C23_WitnessMinted ==
  \E id \in RuneIds :
    /\ AuthorityMinted(last.log, id)
    /\ ReportedSupplyExtra(id) = Some(4)

----------------------------------------------------------------------------
(* Properties of SpecSet *)

\* the transaction tx passes the check of kind for rune id per the tables of w (chain
\* ch): the slot holds a reconstructable script that a resolvable, non-blacklisted
\* prevout among the first 10 inputs carries
KindPasses(w, ch, tx, id, kind) ==
  LET slot == TableContext(w, id).scripts[kind]
  IN /\ IsSome(slot)
     /\ IsSome(Unwrap(slot).script)
     /\ \E k \in 1..Min(Len(tx.input), AUTHORITY_INPUT_LIMIT) :
          LET prevout == ClientScript(ch, tx.input[k])
          IN /\ IsSome(prevout)
             /\ ~RowBlacklists(MapGetOr(w.rune_id_to_blacklist, id, {}), Unwrap(prevout))
             /\ prevout = Unwrap(slot).script

\* the kinds a SetAuthority request for rune id is about: Blacklist is stripped when
\* the rune lacks the Blacklist flag
FilteredKinds(w, id, authorities) ==
  {kind \in {Mint, Blacklist, Master} :
     /\ contains(from_bits_truncated(authorities), kind)
     /\ (kind = Blacklist => contains(TableContext(w, id).flags, Blacklist))}

\* the SetAuthority field of a transaction whose runestone carries one
RequestOf(tx) == Unwrap(Unwrap(tx.artifact).set_authority)

\* C8: a SetAuthority request is applied exactly when its filtered set of kinds is not
\* empty and every kind in it passes check_authority; a request that is not applied
\* leaves rune_id_to_authority_flags and rune_id_to_authority_scripts as they were, and
\* an applied one adds its kinds to the flags of the rune.
C8_SetAuthorityAllKinds ==
  [][IsSome(last'.set_authority.target)
     => LET id == Unwrap(last'.set_authority.target)
            filtered == FilteredKinds(World, id, RequestOf(last'.tx).authorities)
            applies == /\ filtered # {}
                       /\ \A kind \in filtered : KindPasses(World, chain', last'.tx, id, kind)
        IN /\ last'.set_authority.authorized <=> applies
           /\ ~applies => /\ rune_id_to_authority_flags' = rune_id_to_authority_flags
                          /\ rune_id_to_authority_scripts' = rune_id_to_authority_scripts
           /\ applies => /\ \A kind \in filtered :
                              contains(rune_id_to_authority_flags'[id], kind)
                         /\ \A kind \in {Mint, Blacklist, Master} \ filtered :
                              contains(rune_id_to_authority_flags'[id], kind)
                              <=> contains(MapGetOr(rune_id_to_authority_flags, id, 0), kind)
    ]_vars

\* a request for two kinds was rejected although the transaction passes the check of
\* one of them, and an earlier request had been applied
C8_Witness ==
  /\ IsSome(last.set_authority.target)
  /\ ~last.set_authority.authorized
  /\ Cardinality(FilteredKinds(World, Unwrap(last.set_authority.target),
                               RequestOf(last.tx).authorities)) = 2
  /\ \E kind \in FilteredKinds(World, Unwrap(last.set_authority.target),
                               RequestOf(last.tx).authorities) :
       KindPasses(World, chain, last.tx, Unwrap(last.set_authority.target), kind)

\* a request for two kinds was applied by a transaction whose two inputs each pass one
C8_WitnessApplied ==
  /\ IsSome(last.set_authority.target)
  /\ last.set_authority.authorized
  /\ Len(last.tx.input) = 2
  /\ \E id \in DOMAIN rune_id_to_authority_scripts :
       rune_id_to_authority_scripts[id][1] = AllAuthorities

\* C10: after an authorized SetAuthority with kinds S and any body, the context loaded
\* for the rune holds, for every kind in S, the new compact script (the kind of the
\* previous Master, the body as given) and, for every other kind, the script it held
\* before; the presence byte is the previous presence united with S.
C10_BlobMerge ==
  [][/\ IsSome(last'.set_authority.target)
     /\ last'.set_authority.authorized
     => LET id == Unwrap(last'.set_authority.target)
            S == kinds(last'.set_authority.authorities)
            before == TableContext(World, id)
            after == TableContext(World', id)
            new_compact ==
              [kind |-> IF IsSome(before.scripts[Master])
                        THEN Unwrap(before.scripts[Master]).compact.kind ELSE P2TR,
               body |-> RequestOf(last'.tx).script_pubkey_compact]
        IN /\ \A kind \in {Mint, Blacklist, Master} :
                after.scripts[kind] = IF kind \in Range(S)
                                      THEN Some(CachedScriptNew(new_compact))
                                      ELSE before.scripts[kind]
           /\ from_bits_truncated(rune_id_to_authority_scripts'[id][1])
              = InsertKinds(from_bits_truncated(rune_id_to_authority_scripts[id][1]), S, 1)
    ]_vars

----------------------------------------------------------------------------
(* Properties of SpecMaster *)

\* the script of the Master slot of rune id per the tables of w: Some(script) or None
MasterScript(w, id) ==
  LET slot == TableContext(w, id).scripts[Master]
  IN IF IsSome(slot) THEN Unwrap(slot).script ELSE None

\* a prevout among the first 10 inputs of tx carries script
SpendsScript(ch, tx, script) ==
  \E k \in 1..Min(Len(tx.input), AUTHORITY_INPUT_LIMIT) :
     ClientScript(ch, tx.input[k]) = Some(script)

\* the AuthorityUpdates field of a transaction whose runestone carries one
UpdatesOf(tx) == Unwrap(Unwrap(tx.artifact).authority)

\* C9: a SetAuthority({Master}, B) by the holder ScriptA moves the Master slot to
\* ScriptB. From then on a transaction that spends ScriptA and not ScriptB fails the
\* Master check and its add_minter and remove_minter entries leave rune_id_to_minters
\* unchanged; a transaction that spends ScriptB passes it and its add_minter entries
\* are in the table afterwards; and a listed minter's edict for more than the balance
\* is raised to its amount.
C9_MasterTransfer ==
  [][\A id \in DOMAIN id_to_entry :
       /\ /\ MasterScript(World, id) = Some(ScriptA)
          /\ last'.set_authority.target = Some(id)
          /\ RequestOf(last'.tx) = SetAuthority(mask(Master), KeyB)
          /\ SpendsScript(chain', last'.tx, ScriptA)
          => MasterScript(World', id) = Some(ScriptB)
       /\ /\ MasterScript(World, id) = Some(ScriptB)
          /\ last'.updates.target = Some(id)
          => IF SpendsScript(chain', last'.tx, ScriptB)
             THEN /\ last'.updates.master_ok
                  /\ IsSome(UpdatesOf(last'.tx).add_minter)
                     => Range(Unwrap(UpdatesOf(last'.tx).add_minter))
                          \subseteq MapGetOr(rune_id_to_minters', id, {})
             ELSE /\ ~last'.updates.master_ok
                  /\ rune_id_to_minters' = rune_id_to_minters
       /\ \A i \in 1..Len(last'.log) :
            /\ last'.log[i].id = id
            /\ MasterScript(World, id) = Some(ScriptB)
            /\ Entry(P2WPKH, KeyT) \in MapGetOr(rune_id_to_minters, id, {})
            /\ SpendsScript(chain', last'.tx, ScriptT)
            /\ last'.log[i].amount > last'.log[i].balance
            => /\ last'.log[i].raised = last'.log[i].amount
               /\ AllocatedBy(last'.log[i]) = last'.log[i].amount]_vars

\* the Master is ScriptB, ScriptB's add_minter listed ScriptT, and ScriptT minted 4
\* with nothing unallocated
C9_Witness ==
  \E id \in DOMAIN id_to_entry :
     /\ MasterScript(World, id) = Some(ScriptB)
     /\ Entry(P2WPKH, KeyT) \in MapGetOr(rune_id_to_minters, id, {})
     /\ SpendsScript(chain, last.tx, ScriptT)
     /\ \E i \in 1..Len(last.log) :
          /\ last.log[i].id = id
          /\ last.log[i].balance = 0
          /\ AllocatedBy(last.log[i]) = 4

\* after the transfer, an add_minter of a transaction that spends ScriptA was refused
C9_WitnessRefused ==
  \E id \in DOMAIN id_to_entry :
     /\ MasterScript(World, id) = Some(ScriptB)
     /\ last.updates.target = Some(id)
     /\ SpendsScript(chain, last.tx, ScriptA)
     /\ IsSome(UpdatesOf(last.tx).add_minter)
     /\ ~last.updates.master_ok
     /\ MapGetOr(rune_id_to_minters, id, {}) = {}

----------------------------------------------------------------------------
(* Properties of SpecRepeat *)

\* the transaction of locals b repeats the SetAuthority of the transaction of locals a:
\* the same runestone, the same prevout scripts in the same order, the same target
SameRequest(a, b) ==
  /\ IsSome(a.set_authority.target)
  /\ b.set_authority.target = a.set_authority.target
  /\ b.tx.artifact = a.tx.artifact
  /\ b.tx.fund = a.tx.fund

\* C11: when a transaction repeats the SetAuthority of the transaction before it, the
\* scripts blob of the target rune after the second is byte for byte the blob after the
\* first.
C11_SetAuthorityIdempotent ==
  [][SameRequest(last, last')
     => rune_id_to_authority_scripts' = rune_id_to_authority_scripts]_vars

\* the third transaction of the block repeated the request of the second (in SpecRepeat
\* every request after the first does), both spent prevouts of the same scripts, and the
\* repetition passed the authorization and rewrote a blob that is no longer the one
\* of the etching
C11_Witness ==
  /\ tx_index = 4
  /\ LastIsRequest
  /\ chain[0 - 3] = chain[0 - 2]
  /\ last.set_authority.authorized
  /\ rune_id_to_authority_scripts[Unwrap(last.set_authority.target)]
     # build_initial_authority_scripts_blob([kind |-> P2TR, body |-> KeyA])

----------------------------------------------------------------------------
(* Properties of SpecBlack *)

\* no two entries of a row of rune_id_to_blacklist reconstruct to the same script
NoTwoEntriesOfOneScript(table) ==
  \A id \in DOMAIN table :
    \A e1, e2 \in table[id] :
      (e1 # e2 /\ IsSome(decode_entry_to_script(e1)))
      => decode_entry_to_script(e1) # decode_entry_to_script(e2)

\* C12: a transaction adds no blacklist entry whose script the rune's row already
\* blacklists, and after every transaction no row of rune_id_to_blacklist holds two
\* entries that reconstruct to the same script, whether the entries came in one list or
\* in several transactions.
C12_BlacklistIdempotent ==
  [][/\ \A id \in DOMAIN rune_id_to_blacklist' :
          \A entry \in rune_id_to_blacklist'[id] \ MapGetOr(rune_id_to_blacklist, id, {}) :
             \A script \in {s \in {decode_entry_to_script(entry)} : IsSome(s)} :
                ~RowBlacklists(MapGetOr(rune_id_to_blacklist, id, {}), Unwrap(script))
     /\ NoTwoEntriesOfOneScript(rune_id_to_blacklist')
    ]_vars

\* C12, between transactions only: a transaction adds no entry whose script the row
\* already blacklists, and a list that names each script once leaves no two entries of
\* one script
C12_AcrossTransactions ==
  [][/\ \A id \in DOMAIN rune_id_to_blacklist' :
          \A entry \in rune_id_to_blacklist'[id] \ MapGetOr(rune_id_to_blacklist, id, {}) :
             \A script \in {s \in {decode_entry_to_script(entry)} : IsSome(s)} :
                ~RowBlacklists(MapGetOr(rune_id_to_blacklist, id, {}), Unwrap(script))
     /\ (/\ NoTwoEntriesOfOneScript(rune_id_to_blacklist)
         /\ IsSome(last'.updates.target)
         /\ IsSome(UpdatesOf(last'.tx).blacklist)
         /\ \A i, j \in 1..Len(Unwrap(UpdatesOf(last'.tx).blacklist)) :
               i # j => decode_entry_to_script(Unwrap(UpdatesOf(last'.tx).blacklist)[i])
                        # decode_entry_to_script(Unwrap(UpdatesOf(last'.tx).blacklist)[j]))
        => NoTwoEntriesOfOneScript(rune_id_to_blacklist')
    ]_vars

\* the scripts the blacklist is asked about
ProbeScripts == {ScriptA, ScriptB, ScriptU, ScriptT, OpReturnScript, <<>>}

\* the world whose cache holds no context of rune id: get_context builds one
Uncached(id) == [World EXCEPT !.authority_cache = invalidate(@, id)]

\* the context handed out by get_context holds every script of its blacklist in its
\* bloom filter, and is_blacklisted answers as the scan of that blacklist does
BloomAgrees(w, id) ==
  \A context \in {get_context(w, id).val} :
    /\ \A i \in 1..Len(context.blacklist) :
         IsSome(context.blacklist[i].script)
         => /\ IsSome(context.blacklist_bloom)
            /\ might_contain(Unwrap(context.blacklist_bloom),
                             Unwrap(context.blacklist[i].script))
    /\ \A s \in ProbeScripts :
         is_blacklisted(w, id, s).val = BlacklistScan(context, s)

\* C13: the bloom filter of every context built by load_context, and of every context
\* held by the cache, answers might_contain for each script reconstructed from the
\* context's blacklist entries, and is_blacklisted gives for every script the answer of
\* the linear scan of the context's blacklist.
C13_BloomNoFalseNegatives ==
  \A id \in RuneIds : BloomAgrees(Uncached(id), id) /\ BloomAgrees(World, id)

\* a rune with two blacklisted scripts, of which the filter alone clears a script that
\* is not blacklisted
C13_Witness ==
  \E id \in RuneIds :
    \E context \in {load_context(World, id)} :
      /\ Len(context.blacklist) >= 2
      /\ BlacklistScan(context, ScriptT)
      /\ BlacklistScan(context, ScriptU)
      /\ is_blacklisted(Uncached(id), id, ScriptT).val
      /\ ~is_blacklisted(Uncached(id), id, ScriptA).val
      /\ \E s \in ProbeScripts : ~might_contain(Unwrap(context.blacklist_bloom), s)

----------------------------------------------------------------------------
(* Properties of SpecScripts *)

\* the bytes the entries of the script cache count for
ScriptCacheBytes(sc) ==
  SumOver(DOMAIN sc.cache, [key \in DOMAIN sc.cache |-> Len(sc.cache[key]) + 64])

\* C14: after every get_script_pubkey call, whether a hit, a miss or a failed lookup,
\* current_bytes of the script cache is at most max_bytes, and current_bytes is the sum
\* over the cached entries of script length + 64.
C14_ScriptCacheBudget ==
  /\ script_cache.current_bytes <= script_cache.max_bytes
  /\ script_cache.current_bytes = ScriptCacheBytes(script_cache)
  /\ script_cache.max_bytes = ScriptCacheBudget

\* a miss whose put evicted an older entry and left the new one cached
C14_Witness ==
  \E i \in 1..Len(last.checks) :
    /\ last.checks[i].kind = "Script"
    /\ IsSome(last.checks[i].val)
    /\ last.checks[i].outpoint \notin last.checks[i].before
    /\ last.checks[i].before \ DOMAIN script_cache.cache # {}
    /\ Has(script_cache.cache, last.checks[i].outpoint)
    /\ Cardinality(DOMAIN script_cache.cache) >= 2

----------------------------------------------------------------------------
(* Properties of SpecCtx *)

\* the size of the largest context the cache holds, 0 when it holds none
LargestCached(cc) ==
  IF DOMAIN cc.contexts = {} THEN 0
  ELSE CHOOSE size \in {ContextSize(cc.contexts[id]) : id \in DOMAIN cc.contexts} :
         \A id \in DOMAIN cc.contexts : ContextSize(cc.contexts[id]) <= size

\* C15: after every get_context (get_existing on a hit, insert_and_get on a miss),
\* invalidate and update_supply_extra, current_bytes of the context cache is at most
\* the larger of the configured max_bytes and the size of the largest cached context.
C15_ContextCacheBudget ==
  /\ authority_cache.max_bytes = ContextCacheBudget
  /\ authority_cache.current_bytes
       <= Max(authority_cache.max_bytes, LargestCached(authority_cache))

\* a miss whose insert evicted older entries and left a context larger than the budget
C15_Witness ==
  /\ authority_cache.current_bytes > authority_cache.max_bytes
  /\ \E i \in 1..Len(last.checks) :
       /\ last.checks[i].kind = "Context"
       /\ last.checks[i].id \notin last.checks[i].before
       /\ Cardinality(last.checks[i].before) >= 2
       /\ DOMAIN authority_cache.contexts = {last.checks[i].id}

\* the contexts load_context builds in the current state
LoadedContexts == {load_context(World, id) : id \in CtxIds}

\* C16: for every rune id the cache does not hold (get_context inserts on a miss only)
\* and every context, insert_and_get leaves the context cached under the id, so that
\* the entry it unwraps is there, also when the context is larger than max_bytes.
C16_NeverEvictSelf ==
  \A id \in CtxIds \ DOMAIN authority_cache.contexts :
    \A context \in LoadedContexts :
      \A after \in {insert_and_get(authority_cache, id, context)} :
        /\ Has(after.contexts, id)
        /\ after.contexts[id] = context

\* get_context has just inserted a context larger than the budget into a cache that
\* held others, and the cache holds it
C16_Witness ==
  \E i \in 1..Len(last.checks) :
    /\ last.checks[i].kind = "Context"
    /\ last.checks[i].id \notin last.checks[i].before
    /\ last.checks[i].before # {}
    /\ last.checks[i].size > authority_cache.max_bytes
    /\ Has(authority_cache.contexts, last.checks[i].id)
    /\ ContextSize(authority_cache.contexts[last.checks[i].id]) = last.checks[i].size

----------------------------------------------------------------------------
(* The reads of the context cache within a transaction *)

\* C17: every call of get_context made while a transaction is indexed, whether by
\* check_authority, is_blacklisted or a flag test, hands out a context whose flags,
\* scripts, minters and blacklist are those of the tables at the time of the call: no
\* read follows a write of the Executor without the invalidation in between.
C17_InvalidateOnWrite ==
  \A n \in 1..Len(last.reads) : last.reads[n].current

\* C17 for the first read that a transaction makes of each rune: a context cached by
\* an earlier transaction is not older than the tables
C17_BetweenTransactions ==
  \A n \in 1..Len(last.reads) :
    (\A m \in 1..(n - 1) : last.reads[m].id # last.reads[n].id) => last.reads[n].current

----------------------------------------------------------------------------
(* Properties of SpecOrder *)

\* the tables between the SetAuthority and the AuthorityUpdates of the transaction of
\* a step: flags and scripts as the step leaves them (only the SetAuthority writes
\* them), minters and blacklist as the step found them
AfterSetAuthority ==
  [World EXCEPT !.rune_id_to_authority_flags = rune_id_to_authority_flags',
                !.rune_id_to_authority_scripts = rune_id_to_authority_scripts',
                !.chain = chain']

\* the two gates of the AuthorityUpdates of a step were decided on the tables the
\* SetAuthority of the same transaction left
GatesSeeSetAuthority ==
  IsSome(last'.updates.target) =>
    LET id == Unwrap(last'.updates.target)
        requests == UpdatesOf(last'.tx)
    IN /\ last'.updates.master_ok
            = (/\ IsSome(requests.add_minter) \/ IsSome(requests.remove_minter)
               /\ KindPasses(AfterSetAuthority, chain', last'.tx, id, Master))
       /\ last'.updates.blacklist_ok
            = (/\ IsSome(requests.blacklist) \/ IsSome(requests.unblacklist)
               /\ contains(TableContext(AfterSetAuthority, id).flags, Blacklist)
               /\ KindPasses(AfterSetAuthority, chain', last'.tx, id, Blacklist))

\* the authorization of each edict of a step and the blacklist test of each of its
\* destinations were decided on the tables the AuthorityUpdates of the same
\* transaction left, which are the tables the step leaves
EdictsSeeUpdates ==
  \A i \in 1..Len(last'.log) :
    LET entry == last'.log[i]
    IN /\ entry.has_mint_flag = contains(TableContext(World', entry.id).flags, Mint)
       /\ entry.has_mint_flag
          => /\ entry.check_auth
                  = KindPasses(World', chain', last'.tx, entry.id, Mint)
             /\ (entry.check_auth \/ entry.check_minter)
                  = MayMintBeyond(World', chain', last'.tx, entry.id)
       /\ \A j \in 1..Len(entry.steps) :
            (entry.steps[j].allocated_after = entry.steps[j].allocated_before)
            = RowBlacklists(MapGetOr(rune_id_to_blacklist', entry.id, {}),
                            last'.tx.output[entry.steps[j].output + 1])

\* C18: the steps of a transaction run in the order SetAuthority, AuthorityUpdates,
\* edicts, and each sees what the steps before it wrote: the gates of the
\* AuthorityUpdates are decided on the scripts the SetAuthority left, so that an
\* authority handed away no longer authorizes them, and the authorization and the
\* destination blacklist tests of the edicts are decided on the minters and the
\* blacklist the AuthorityUpdates left.
C18_StepsInOrder ==
  [][~IsSome(last'.etched) => GatesSeeSetAuthority /\ EdictsSeeUpdates]_vars

\* ScriptA alone handed the Master authority to ScriptB and asked for a minter in the
\* same transaction: the request was refused and no minter is listed
C18_Witness ==
  /\ last.set_authority.authorized
  /\ contains(last.set_authority.authorities, Master)
  /\ last.tx.fund = <<ScriptA>>
  /\ last.updates.target = last.set_authority.target
  /\ IsSome(UpdatesOf(last.tx).add_minter)
  /\ ~last.updates.master_ok
  /\ rune_id_to_minters = EmptyMap

\* ScriptA blacklisted ScriptU and sent units to ScriptU in the same transaction: the
\* edict minted its shortfall and the destination was refused
C18_WitnessBlacklist ==
  /\ last.updates.blacklist_ok
  /\ \E i \in 1..Len(last.log) :
       /\ last.log[i].delta > 0
       /\ Len(last.log[i].steps) = 1
       /\ last.log[i].steps[1].allocated_after = last.log[i].steps[1].allocated_before
       /\ ~RowBlacklists(last.checks[1].blacklist, ScriptU)

\* ScriptA blacklisted itself and asked for units in the same transaction: the edict
\* found no authority
C18_WitnessSelf ==
  /\ last.updates.blacklist_ok
  /\ last.tx.fund = <<ScriptA>>
  /\ \E i \in 1..Len(last.log) :
       /\ last.log[i].has_mint_flag
       /\ ~last.log[i].check_auth /\ ~last.log[i].check_minter
       /\ last.log[i].delta = 0

----------------------------------------------------------------------------
(* Properties of SpecSwap *)

\* the runestone of tx carries two edicts, for two different runes
TwoRuneEdicts(tx) ==
  /\ IsSome(tx.artifact)
  /\ Len(Unwrap(tx.artifact).edicts) = 2
  /\ Unwrap(tx.artifact).edicts[1].id # Unwrap(tx.artifact).edicts[2].id

\* tx with the edicts of its runestone in the opposite order
Swapped(tx) == [tx EXCEPT !.artifact[1].edicts = Reverse(@)]

\* what the steps of the edicts of a log left allocated: rune, output and amount
Allocations(log) ==
  UNION {{<<log[i].id, log[i].steps[j].output, log[i].steps[j].allocated_after>> :
            j \in {k \in 1..Len(log[i].steps) :
                     log[i].steps[k].allocated_after # log[i].steps[k].allocated_before}} :
           i \in 1..Len(log)}

\* the end state of transaction tx indexed in the state a step starts from: the
\* tables, the unallocated and burned amounts and the allocations of the edicts
EndState(tx, descending) ==
  With([r \in {index_runes([World EXCEPT !.chain = chain'], tx_index, tx, descending)} |->
    [outpoint_to_balances |-> r.w.outpoint_to_balances,
     id_to_entry |-> r.w.id_to_entry,
     rune_id_to_authority_flags |-> r.w.rune_id_to_authority_flags,
     rune_id_to_authority_scripts |-> r.w.rune_id_to_authority_scripts,
     rune_id_to_minters |-> r.w.rune_id_to_minters,
     rune_id_to_blacklist |-> r.w.rune_id_to_blacklist,
     rune_id_to_supply_extra |-> r.w.rune_id_to_supply_extra,
     burned |-> r.w.burned,
     unallocated |-> r.locals.unallocated,
     blocked |-> r.locals.blocked,
     burned_by_tx |-> r.locals.burned,
     allocations |-> Allocations(r.locals.log)]])

----------------------------------------------------------------------------
(* Properties of SpecCodec *)

\* the kind of the form script is of: OP_1 PUSH(32), OP_0 PUSH(20) or OP_0 PUSH(32),
\* or None
FormOf(script) ==
  IF Len(script) = 34 /\ script[1] = OP_PUSHNUM_1 /\ script[2] = 32 THEN Some(P2TR)
  ELSE IF Len(script) = 22 /\ script[1] = OP_PUSHBYTES_0 /\ script[2] = 20
       THEN Some(P2WPKH)
  ELSE IF Len(script) = 34 /\ script[1] = OP_PUSHBYTES_0 /\ script[2] = 32
       THEN Some(P2WSH)
  ELSE None

\* the round trip of one script
RoundTrips(script) ==
  IF IsSome(FormOf(script))
  THEN /\ IsSome(try_from_script(script))
       /\ Unwrap(try_from_script(script)).kind = Unwrap(FormOf(script))
       /\ to_script(Unwrap(try_from_script(script))) = Some(script)
  ELSE try_from_script(script) = None

\* C20: for the script s of the first input of every etching, try_from_script(s) is a
\* compact script of kind P2TR, P2WPKH or P2WSH that to_script turns back into s when
\* s is OP_1 PUSH(32), OP_0 PUSH(20) or OP_0 PUSH(32), and none for every other
\* script; the rune's authority slots then reconstruct to s, or the rune has no
\* authority scripts.
C20_CompactRoundtrip ==
  /\ \A script \in CodecScripts : RoundTrips(script)
  /\ \A id \in RuneIds :
       IsSome(last.etched) /\ Unwrap(last.etched).id = id
       => \A script \in {last.tx.fund[1]} :
            /\ RoundTrips(script)
            /\ IF IsSome(FormOf(script))
               THEN \A kind \in {Mint, Blacklist, Master} :
                      /\ IsSome(TableContext(World, id).scripts[kind])
                      /\ Unwrap(TableContext(World, id).scripts[kind]).script = Some(script)
                      /\ Unwrap(TableContext(World, id).scripts[kind]).compact.kind
                           = Unwrap(FormOf(script))
               ELSE ~Has(rune_id_to_authority_scripts, id)

\* an etching by a P2WPKH script, whose slots reconstruct to it
C20_Witness ==
  /\ IsSome(last.etched)
  /\ FormOf(last.tx.fund[1]) = Some(P2WPKH)
  /\ Unwrap(TableContext(World, Unwrap(last.etched).id).scripts[Master]).script
       = Some(last.tx.fund[1])

\* an etching by an OP_0 push of 19 bytes, which left no authority scripts
C20_WitnessRejected ==
  /\ IsSome(last.etched)
  /\ Len(last.tx.fund[1]) = 21
  /\ last.tx.fund[1][1] = OP_PUSHBYTES_0
  /\ last.tx.fund[1][2] = 19
  /\ rune_id_to_authority_scripts = EmptyMap

----------------------------------------------------------------------------
(* Properties of SpecEntries *)

\* the entries of the minter and the blacklist rows of a rune
StoredEntries(id) ==
  MapGetOr(rune_id_to_minters, id, {}) \cup MapGetOr(rune_id_to_blacklist, id, {})

\* the compact scripts decode_compact_entry reads from the rows of a rune, each of
\* which to_script turns into a script
StoredCompacts(id) ==
  {Unwrap(decode_compact_entry(entry)) :
     entry \in {e \in StoredEntries(id) : IsSome(decode_compact_entry(e))}}

\* C21: the compact scripts (kind, body) read from the minter and blacklist rows, for
\* which to_script succeeds, are one-to-one with their scripts: no two different ones
\* have the same script, and try_from_script(to_script(c)) is c for each of them.
C21_CompactOneToOne ==
  \A id \in RuneIds :
    \A c \in StoredCompacts(id) :
      /\ IsSome(to_script(c))
      /\ try_from_script(Unwrap(to_script(c))) = Some(c)
      /\ \A d \in StoredCompacts(id) : to_script(d) = to_script(c) => d = c


\* C22: every entry of the minter and blacklist rows has a kind byte of 0, 1 or 2 and a
\* body of 20 or 32 bytes.
C22_EntriesWellFormed ==
  \A id \in RuneIds :
    \A entry \in StoredEntries(id) :
      /\ entry[1] \in {P2TR, P2WPKH, P2WSH}
      /\ Len(Tail(entry)) \in {20, 32}

\* the entries of the blacklist row alone are of a known kind, with a body of 1 to 32
\* bytes: the blacklist loop skips what decode_entry_to_script does not reconstruct
C22_BlacklistReconstructs ==
  \A id \in RuneIds :
    \A entry \in MapGetOr(rune_id_to_blacklist, id, {}) :
      /\ entry[1] \in {P2TR, P2WPKH, P2WSH}
      /\ Len(Tail(entry)) \in 1..MaxBodyLen

----------------------------------------------------------------------------
(* Properties of SpecEtch *)

\* the bits of Master, of Mint if allow_minting and of Blacklist if allow_blacklisting
FlagsOfTerms(terms) ==
  mask(Master)
  + (IF IsSome(terms) /\ Unwrap(terms).allow_minting THEN mask(Mint) ELSE 0)
  + (IF IsSome(terms) /\ Unwrap(terms).allow_blacklisting THEN mask(Blacklist) ELSE 0)

\* kind, length and body of the compact form of a script of one of the three forms
SlotOf(script) == <<Unwrap(FormOf(script)), Len(script) - 2>> \o SubSeq(script, 3, Len(script))

C24_WitnessUnconvertible ==
  /\ IsSome(last.etched)
  /\ Unwrap(last.tx.artifact).type = "Runestone"
  /\ last.tx.fund[1] = OpReturnScript
  /\ Has(rune_id_to_authority_flags, Unwrap(last.etched).id)
  /\ ~Has(rune_id_to_authority_scripts, Unwrap(last.etched).id)

\* C28: whenever index_runes has returned, every context held in the context cache is
\* the context load_context builds from the tables, also for the rune the transaction
\* etched and for an id that was looked up before the rune was created.
C28_CacheCoherent ==
  \A id \in DOMAIN authority_cache.contexts :
    authority_cache.contexts[id] = load_context(World, id)

----------------------------------------------------------------------------
(* Properties of SpecInert *)

\* the runes etched without allow_blacklisting
Unflagged ==
  {id \in RuneIds : ~(IsSome(id_to_entry[id].terms)
                      /\ Unwrap(id_to_entry[id].terms).allow_blacklisting)}

\* every allocation step of the edicts of id moved its amount to its output
EdictsApplied(log, id) ==
  \A n \in 1..Len(log) :
    log[n].id = id
    => \A k \in 1..Len(log[n].steps) :
         log[n].steps[k].allocated_after
           = log[n].steps[k].allocated_before + log[n].steps[k].amount

\* C25: for a rune etched without the Blacklist flag, after every transaction the
\* flags do not hold the Blacklist bit and the rune has no blacklist row, also after
\* SetAuthority and blacklist updates signed by the script of the Blacklist slot; no
\* row under a consumed outpoint holds units of the rune (nothing is locked), every
\* allocation of its edicts is applied and nothing of it is held back from the default
\* output (nothing is rejected).
C25_BlacklistInert ==
  \A id \in Unflagged :
    /\ ~contains(rune_id_to_authority_flags[id], Blacklist)
    /\ ~Has(rune_id_to_blacklist, id)
    /\ \A o \in spent : Has(outpoint_to_balances, o)
                        => RowAmount(outpoint_to_balances[o], id) = 0
    /\ EdictsApplied(last.log, id)
    /\ ~Has(last.blocked, id)

\* ScriptA, whose script is in the Blacklist slot of a rune without the flag, sent a
\* blacklist update for ScriptU and passed no gate
C25_Witness ==
  \E id \in Unflagged :
    /\ last.updates.target = Some(id)
    /\ IsSome(UpdatesOf(last.tx).blacklist)
    /\ last.tx.fund = <<ScriptA>>
    /\ IsSome(TableContext(World, id).scripts[Blacklist])
    /\ ~last.updates.blacklist_ok

\* ScriptA asked for Blacklist and Master for a rune without the flag: granted, for
\* Master alone
C25_WitnessSetAuthority ==
  \E id \in Unflagged :
    /\ last.set_authority.target = Some(id)
    /\ Unwrap(Unwrap(last.tx.artifact).set_authority).authorities
         = mask(Blacklist) + mask(Master)
    /\ last.set_authority.authorized
    /\ last.set_authority.authorities = mask(Master)

\* ScriptU spends units of a rune without the flag after ScriptA's blacklist update
C25_WitnessSpend ==
  \E id \in Unflagged :
    /\ last.log # <<>>
    /\ last.log[1].id = id
    /\ last.log[1].steps # <<>>
    /\ tx_index = MaxInertTx + 1

----------------------------------------------------------------------------
(* Properties of SpecRevoke *)

\* the scripts the entries of the minter row of id reconstruct to
MinterScripts(w, id) ==
  {Unwrap(decode_entry_to_script(entry)) :
     entry \in {e \in MapGetOr(w.rune_id_to_minters, id, {}) :
                  IsSome(decode_entry_to_script(e))}}

\* some prevout among the first 10 inputs of tx is not blacklisted for id and carries
\* the script of a minter entry
MinterPasses(w, ch, tx, id) ==
  \E k \in 1..Min(Len(tx.input), AUTHORITY_INPUT_LIMIT) :
    \E prevout \in {ClientScript(ch, tx.input[k])} :
       /\ IsSome(prevout)
       /\ ~RowBlacklists(MapGetOr(w.rune_id_to_blacklist, id, {}), Unwrap(prevout))
       /\ Unwrap(prevout) \in MinterScripts(w, id)

\* check_is_minter returned true iff the Master check passes or a minter's script is
\* spent: for every edict of the transaction for a rune with the Mint flag
MinterIff ==
  \A n \in 1..Len(last'.log) :
    last'.log[n].has_mint_flag
    => (last'.log[n].check_minter
          <=> \/ KindPasses(World, chain', last'.tx, last'.log[n].id, Master)
              \/ MinterPasses(World, chain', last'.tx, last'.log[n].id))

\* the next transaction, spending one output of script alone, mints beyond balance
StillMints(id, script) ==
  With([r \in {index_runes([World' EXCEPT
                              !.chain = MapInsert(MapInsert(chain', 0 - tx_index',
                                                            <<script>>),
                                                  tx_index', <<OpReturnScript, ScriptU>>)],
                           tx_index', MintRequest(tx_index', script, id), FALSE)} |->
    r.locals.log[1].delta > 0])

\* after a transaction whose remove_minter entries passed the Master gate, the script
\* of each entry that was in the minter row and has been removed from it, if it is not
\* the script of the Mint or the Master slot, no longer mints beyond balance
Revoked ==
  \A id \in RuneIds :
    /\ last'.updates.target = Some(id)
    /\ last'.updates.master_ok
    /\ IsSome(UpdatesOf(last'.tx).remove_minter)
    => \A entry \in Range(Unwrap(UpdatesOf(last'.tx).remove_minter)) :
         \A script \in {decode_entry_to_script(entry)} :
           /\ entry \in MapGetOr(rune_id_to_minters, id, {})
           /\ entry \notin MapGetOr(rune_id_to_minters', id, {})
           /\ IsSome(script)
           /\ \A kind \in {Mint, Master} :
                \A slot \in {TableContext(World', id).scripts[kind]} :
                  IsSome(slot) => Unwrap(slot).script # script
           => ~StillMints(id, Unwrap(script))

\* C26: check_is_minter(tx, id) is true iff check_authority(tx, id, Master) is true or
\* a non-blacklisted prevout script among the first 10 inputs is the script of an entry
\* of the rune's minter row; and once the Master has removed a minter entry, a
\* transaction that spends that minter's script alone no longer mints beyond balance.
C26_MinterRevocable == [][MinterIff /\ Revoked]_vars

\* the first half alone: what check_is_minter returns
C26_MinterIffOnly == [][MinterIff]_vars

\* the second half for a script that no entry left in the row reconstructs to
C26_RevokedWhenUnlisted ==
  [][\A id \in RuneIds :
       /\ last'.updates.target = Some(id)
       /\ last'.updates.master_ok
       => ~StillMints(id, ScriptT) \/ ScriptT \in MinterScripts(World', id)]_vars

----------------------------------------------------------------------------
(* Properties of SpecWide *)

\* C27: index_runes completes every transaction, whatever the amounts of its edicts,
\* without an arithmetic overflow.
C27_NeverFails ==
  \A n \in 1..Len(last.checks) : last.checks[n].kind # "Overflow"

----------------------------------------------------------------------------
(* Properties of SpecGate *)

\* the non-empty entries of an optional list
EntriesOf(list) == IF IsSome(list) THEN {e \in Range(Unwrap(list)) : e # <<>>} ELSE {}

\* the gates of the updates of tx for rune id, decided on the tables of w: the Master
\* gate is asked when a minter list is present, the Blacklist gate when a blacklist
\* list is present and the rune has the Blacklist flag
MasterGate(w, ch, tx, id) ==
  /\ IsSome(UpdatesOf(tx).add_minter) \/ IsSome(UpdatesOf(tx).remove_minter)
  /\ KindPasses(w, ch, tx, id, Master)

BlacklistGate(w, ch, tx, id) ==
  /\ IsSome(UpdatesOf(tx).blacklist) \/ IsSome(UpdatesOf(tx).unblacklist)
  /\ contains(TableContext(w, id).flags, Blacklist)
  /\ KindPasses(w, ch, tx, id, Blacklist)

\* C29: for the rune an AuthorityUpdates field targets, the Master gate and the
\* Blacklist gate are each decided by check_authority for their own kind alone; a
\* transaction that fails the Master gate leaves rune_id_to_minters unchanged and one
\* that fails the Blacklist gate leaves rune_id_to_blacklist unchanged; a transaction
\* that passes the Master gate has its add_minter entries added to and then its
\* remove_minter entries removed from the minter row, one that passes the Blacklist
\* gate has the scripts of its blacklist entries blacklisted and then its unblacklist
\* entries removed from the blacklist row, whatever the other gate decided.
C29_GatesIndependent ==
  [][\A id \in RuneIds :
       last'.updates.target = Some(id)
       => /\ last'.updates.master_ok = MasterGate(World, chain', last'.tx, id)
          /\ last'.updates.blacklist_ok = BlacklistGate(World, chain', last'.tx, id)
          /\ IF last'.updates.master_ok
             THEN MapGetOr(rune_id_to_minters', id, {})
                    = (MapGetOr(rune_id_to_minters, id, {})
                         \cup EntriesOf(UpdatesOf(last'.tx).add_minter))
                      \ EntriesOf(UpdatesOf(last'.tx).remove_minter)
             ELSE rune_id_to_minters' = rune_id_to_minters
          /\ IF last'.updates.blacklist_ok
             THEN /\ \A entry \in EntriesOf(UpdatesOf(last'.tx).blacklist)
                                    \ EntriesOf(UpdatesOf(last'.tx).unblacklist) :
                       IsSome(decode_entry_to_script(entry))
                       => RowBlacklists(MapGetOr(rune_id_to_blacklist', id, {}),
                                        Unwrap(decode_entry_to_script(entry)))
                  /\ MapGetOr(rune_id_to_blacklist', id, {})
                       \cap EntriesOf(UpdatesOf(last'.tx).unblacklist) = {}
                  /\ MapGetOr(rune_id_to_blacklist', id, {})
                       \subseteq MapGetOr(rune_id_to_blacklist, id, {})
                                   \cup EntriesOf(UpdatesOf(last'.tx).blacklist)
                  /\ MapGetOr(rune_id_to_blacklist, id, {})
                       \ EntriesOf(UpdatesOf(last'.tx).unblacklist)
                       \subseteq MapGetOr(rune_id_to_blacklist', id, {})
             ELSE rune_id_to_blacklist' = rune_id_to_blacklist]_vars

\* the Blacklist slot is ScriptB's and the Master slot ScriptA's; a transaction of
\* ScriptB with a minter list and a blacklist list failed the Master gate, passed the
\* Blacklist gate and blacklisted ScriptU, the minter row staying empty
C29_Witness ==
  \E id \in RuneIds :
    /\ last.updates.target = Some(id)
    /\ last.tx.fund = <<ScriptB>>
    /\ IsSome(UpdatesOf(last.tx).add_minter)
    /\ IsSome(UpdatesOf(last.tx).blacklist)
    /\ ~last.updates.master_ok
    /\ last.updates.blacklist_ok
    /\ ~Has(rune_id_to_minters, id)
    /\ EntryU \in MapGetOr(rune_id_to_blacklist, id, {})

\* the other way round: ScriptA passed the Master gate and failed the Blacklist gate
C29_WitnessMaster ==
  \E id \in RuneIds :
    /\ last.updates.target = Some(id)
    /\ last.tx.fund = <<ScriptA>>
    /\ IsSome(UpdatesOf(last.tx).blacklist)
    /\ last.updates.master_ok
    /\ ~last.updates.blacklist_ok
    /\ EntryTW \in MapGetOr(rune_id_to_minters, id, {})
    /\ ~Has(rune_id_to_blacklist, id)

----------------------------------------------------------------------------
(* Properties of SpecDist *)

\* the 0-based indices of the outputs of tx that are not OP_RETURN
DestSet(tx) == {i \in 0..(Len(tx.output) - 1) : ~is_op_return(tx.output[i + 1])}

\* the k-th of them in ascending order
NthDest(tx, k) ==
  CHOOSE d \in DestSet(tx) : Cardinality({x \in DestSet(tx) : x < d}) = k - 1

\* the allocation steps a distribute edict is to make from destination k on: with even,
\* destination k is given bal div n, and one unit more if it is among the first
\* bal mod n; otherwise min(amount, remaining). A step of nothing is no step. With
\* honour, a destination whose script is on the blacklist row receives nothing and the
\* amount stays with the remaining balance.
RECURSIVE ExpectedSteps(_, _, _, _, _, _, _, _)
ExpectedSteps(tx, row, even, bal, amount, remaining, k, honour) ==
  IF k > Cardinality(DestSet(tx)) THEN <<>>
  ELSE LET n == Cardinality(DestSet(tx))
           d == NthDest(tx, k)
           a == IF even THEN (bal \div n) + (IF k <= bal % n THEN 1 ELSE 0)
                ELSE Min(amount, remaining)
           got == IF honour /\ RowBlacklists(row, tx.output[d + 1]) THEN 0 ELSE a
       IN (IF a > 0 THEN <<[output |-> d, amount |-> a, received |-> got]>> ELSE <<>>)
          \o ExpectedSteps(tx, row, even, bal, amount, remaining - got, k + 1, honour)

\* the steps an edict made: output, amount and what the output received
StepsMade(entry) ==
  [k \in 1..Len(entry.steps) |->
     [output |-> entry.steps[k].output, amount |-> entry.steps[k].amount,
      received |-> entry.steps[k].allocated_after - entry.steps[k].allocated_before]]

\* the edicts of tx that are not skipped: output at most the number of outputs, and an
\* id other than 0:0 unless a rune is etched
KeptEdicts(tx, etching) ==
  SelectSeq(Unwrap(tx.artifact).edicts,
            LAMBDA ed : /\ ed.output <= Len(tx.output)
                        /\ (ed.id # ZeroId \/ IsSome(etching)))

\* the distribute edicts of the transaction made the steps expected of them, the
\* skipped edicts had no effect, and no edict allocated more than its balance
Distributes(honour) ==
  /\ Len(last'.log) = Len(KeptEdicts(last'.tx, last'.etched))
  /\ EndState(last'.tx, FALSE)
       = EndState([last'.tx EXCEPT !.artifact[1].edicts =
                     KeptEdicts(last'.tx, last'.etched)], FALSE)
  /\ \A n \in 1..Len(last'.log) :
       \A entry \in {last'.log[n]} :
         /\ entry.amount = KeptEdicts(last'.tx, last'.etched)[n].amount
         /\ entry.output = KeptEdicts(last'.tx, last'.etched)[n].output
         /\ AllocatedBy(entry) <= entry.raised
         /\ entry.output = Len(last'.tx.output)
            => StepsMade(entry)
                 = ExpectedSteps(last'.tx, MapGetOr(rune_id_to_blacklist, entry.id, {}),
                                 entry.amount = 0, entry.raised, entry.amount,
                                 entry.raised, 1, honour)

\* C30 as stated: a distribute edict visits the outputs that are not OP_RETURN in
\* ascending order and makes no step if there are none; with amount 0 each destination
\* receives balance div n and the first balance mod n of them one unit more, with
\* amount > 0 each receives min(amount, remaining balance); an edict for an output
\* beyond the number of outputs, or for id 0:0 when nothing is etched, has no effect;
\* no edict allocates more than its balance.
C30_DistributeAsStated ==
  [][IsSome(last'.tx.artifact) /\ last'.inputs # EmptyMap => Distributes(FALSE)]_vars

\* C30 as amended: the same, except that a destination whose script is blacklisted for
\* the rune receives nothing, its share staying unallocated.
C30_Distribute ==
  [][IsSome(last'.tx.artifact) /\ last'.inputs # EmptyMap => Distributes(TRUE)]_vars

\* 11 units were distributed over three destinations with amount 0: 4, 4 and 3
C30_Witness ==
  /\ Len(last.log) = 1
  /\ last.log[1].amount = 0
  /\ last.log[1].raised = 11
  /\ [k \in 1..Len(last.log[1].steps) |-> StepsMade(last.log[1])[k].received]
       = <<4, 4, 3>>

\* 11 units were distributed with amount 4 over ScriptT, the blacklisted ScriptU and
\* ScriptB: 4, nothing and 4
C30_WitnessBlacklisted ==
  /\ Len(last.log) = 1
  /\ last.log[1].amount = 4
  /\ last.log[1].raised = 11
  /\ [k \in 1..Len(last.log[1].steps) |-> StepsMade(last.log[1])[k].received]
       = <<4, 0, 4>>

\* an edict for the output after the distribute sentinel was skipped
C30_WitnessSkipped ==
  /\ IsSome(last.tx.artifact)
  /\ last.inputs # EmptyMap
  /\ Len(Unwrap(last.tx.artifact).edicts) = 2
  /\ Unwrap(last.tx.artifact).edicts[2].output = Len(last.tx.output) + 1
  /\ Len(last.log) = 1

----------------------------------------------------------------------------
(* Properties of SpecBurn *)

IsCenotaph(tx) == IsSome(tx.artifact) /\ Unwrap(tx.artifact).type = "Cenotaph"

\* the outputs that take the unallocated balances of tx: the pointer when it names an
\* output, else the first output that is not OP_RETURN, else none
DefaultOf(tx) ==
  IF IsSome(tx.artifact) /\ IsSome(Unwrap(tx.artifact).pointer)
     /\ Unwrap(Unwrap(tx.artifact).pointer) < Len(tx.output)
  THEN {Unwrap(Unwrap(tx.artifact).pointer)}
  ELSE {d \in DestSet(tx) : \A x \in DestSet(tx) : d <= x}

\* what the edicts of the transaction allocated of rune id to output v
EdictAllocated(log, id, v) ==
  SumSeq([n \in 1..Len(log) |->
            IF log[n].id = id
            THEN SumSeq([k \in 1..Len(log[n].steps) |->
                           IF log[n].steps[k].output = v
                           THEN log[n].steps[k].allocated_after
                                  - log[n].steps[k].allocated_before
                           ELSE 0])
            ELSE 0])

\* what output v was allocated of rune id: by the edicts, and by the sweep of what the
\* edicts left when v is the default output and the blacklist does not block it
AllocatedTo(locals, id, v) ==
  EdictAllocated(locals.log, id, v)
  + (IF ~IsCenotaph(locals.tx) /\ v \in DefaultOf(locals.tx)
     THEN MapGetOr(locals.unallocated, id, 0) - MapGetOr(locals.blocked, id, 0)
     ELSE 0)

OpReturns(tx) == {v \in 0..(Len(tx.output) - 1) : is_op_return(tx.output[v + 1])}

\* what the burn rules make the transaction burn of rune id
ToBurn(locals, id) ==
  (IF IsCenotaph(locals.tx) \/ DefaultOf(locals.tx) = {}
   THEN MapGetOr(locals.unallocated, id, 0) ELSE 0)
  + SumOver(OpReturns(locals.tx),
            [v \in OpReturns(locals.tx) |-> AllocatedTo(locals, id, v)])

\* C31: a cenotaph adds every remaining unallocated amount to burned and credits no
\* output; a transaction that is no cenotaph and has neither an in-range pointer nor an
\* output other than OP_RETURN burns its unallocated amounts; what is allocated to an
\* OP_RETURN output is burned and no balance row is written for that output; nothing
\* else is burned.
C31_BurnRules ==
  [][/\ \A id \in DOMAIN id_to_entry' \cup DOMAIN burned' :
          MapGetOr(burned', id, 0) - MapGetOr(burned, id, 0) = ToBurn(last', id)
     /\ IsCenotaph(last'.tx) => OutputsOf(last') \cap DOMAIN outpoint_to_balances' = {}
     /\ \A v \in OpReturns(last'.tx) : ~Has(outpoint_to_balances', <<last'.txid, v>>)]_vars

\* a cenotaph with an output that is not OP_RETURN burned what its input and its mint
\* brought in
C31_Witness ==
  /\ IsCenotaph(last.tx)
  /\ DestSet(last.tx) # {}
  /\ \E id \in DOMAIN last.burned : last.burned[id] = 13 /\ last.inputs[id] = 10

\* a runestone without a destination burned its unallocated amount and what its edict
\* allocated to an OP_RETURN output
C31_WitnessNoDestination ==
  /\ ~IsCenotaph(last.tx)
  /\ DefaultOf(last.tx) = {}
  /\ \E id \in DOMAIN last.burned :
       /\ last.burned[id] = 10
       /\ last.unallocated[id] = 6
       /\ EdictAllocated(last.log, id, 0) = 4

\* the pointer named an OP_RETURN output while another output could take the runes
C31_WitnessPointer ==
  /\ ~IsCenotaph(last.tx)
  /\ DestSet(last.tx) # {}
  /\ DefaultOf(last.tx) \subseteq OpReturns(last.tx)
  /\ \E id \in DOMAIN last.burned : last.burned[id] = 10

----------------------------------------------------------------------------
(* Properties of SpecTarget *)

\* the chain of SetAuthority targets: the candidates in the order of preference, the
\* first edict's id counting as the etched rune when it is 0:0
SetAuthorityChain(runestone, etching) ==
  (IF runestone.edicts = <<>> THEN <<>>
   ELSE IF runestone.edicts[1].id # ZeroId THEN <<runestone.edicts[1].id>>
   ELSE IF IsSome(etching) THEN <<Unwrap(etching).id>> ELSE <<>>)
  \o runestone.mint
  \o (IF IsSome(etching) THEN <<Unwrap(etching).id>> ELSE <<>>)

\* the chain of AuthorityUpdates targets
AuthorityUpdatesChain(runestone, etching) ==
  runestone.mint \o (IF IsSome(etching) THEN <<Unwrap(etching).id>> ELSE <<>>)

\* the first of a chain as an Option
FirstOf(chain_of_ids) == IF chain_of_ids = <<>> THEN None ELSE Some(Head(chain_of_ids))

\* the runes whose row of a multimap table changed
RowsChanged(before, after) ==
  {id \in DOMAIN before \cup DOMAIN after :
     MapGetOr(before, id, {}) # MapGetOr(after, id, {})}

\* C32: a SetAuthority acts on the first edict's id if that is not 0:0, on the etched
\* rune if the first edict's id is 0:0 and a rune is etched, otherwise on the mint
\* field, otherwise on the etched rune, and on nothing if there is none of these;
\* AuthorityUpdates act on the mint field, else on the etched rune, else on nothing.
\* No authority row of another rune changes.
C32_TargetResolution ==
  [][\A runestone \in {Unwrap(last'.tx.artifact)} :
       /\ last'.set_authority.target
            = (IF IsSome(runestone.set_authority)
               THEN FirstOf(SetAuthorityChain(runestone, last'.etched)) ELSE None)
       /\ last'.updates.target
            = (IF IsSome(runestone.authority)
               THEN FirstOf(AuthorityUpdatesChain(runestone, last'.etched)) ELSE None)
       /\ \A id \in DOMAIN rune_id_to_authority_scripts :
            rune_id_to_authority_scripts'[id] # rune_id_to_authority_scripts[id]
            => /\ IsSome(runestone.set_authority)
               /\ Some(id) = FirstOf(SetAuthorityChain(runestone, last'.etched))
       /\ \A id \in RowsChanged(rune_id_to_minters, rune_id_to_minters') :
            /\ IsSome(runestone.authority)
            /\ Some(id) = FirstOf(AuthorityUpdatesChain(runestone, last'.etched))]_vars

\* a SetAuthority changed the Mint slot of the rune its first edict names, and the
\* AuthorityUpdates of the same runestone listed a minter of the other rune, which the
\* mint field names
C32_Witness ==
  /\ IsSome(last.tx.artifact)
  /\ \E runestone \in {Unwrap(last.tx.artifact)} :
       /\ Len(runestone.edicts) = 2
       /\ IsSome(runestone.mint)
       /\ runestone.edicts[1].id # ZeroId
       /\ runestone.edicts[1].id # Unwrap(runestone.mint)
       /\ last.set_authority.authorized
       /\ last.updates.master_ok
       /\ MapGetOr(rune_id_to_minters, Unwrap(runestone.mint), {}) # {}
       /\ MapGetOr(rune_id_to_minters, runestone.edicts[1].id, {}) = {}
       /\ rune_id_to_authority_scripts[runestone.edicts[1].id]
            # rune_id_to_authority_scripts[Unwrap(runestone.mint)]

\* the first edict's id is 0:0 and no rune is etched: the mint field is the target
C32_WitnessZeroId ==
  /\ IsSome(last.tx.artifact)
  /\ \E runestone \in {Unwrap(last.tx.artifact)} :
       /\ runestone.edicts # <<>>
       /\ runestone.edicts[1].id = ZeroId
       /\ ~IsSome(last.etched)
       /\ last.set_authority.target = runestone.mint
       /\ last.set_authority.authorized

\* the first edict's id is 0:0 and a rune is etched: the etched rune is the target,
\* whatever the mint field names
C32_WitnessEtched ==
  /\ IsSome(last.tx.artifact)
  /\ \E runestone \in {Unwrap(last.tx.artifact)} :
       /\ runestone.edicts # <<>>
       /\ runestone.edicts[1].id = ZeroId
       /\ IsSome(runestone.mint)
       /\ IsSome(last.etched)
       /\ last.set_authority.target = Some(Unwrap(last.etched).id)

\* a runestone with a SetAuthority and no edict, mint field or etching does nothing
C32_WitnessNone ==
  /\ IsSome(last.tx.artifact)
  /\ IsSome(Unwrap(last.tx.artifact).set_authority)
  /\ IsSome(Unwrap(last.tx.artifact).authority)
  /\ last.set_authority = NoSetAuthority
  /\ last.updates = NoUpdates
  /\ tx_index > 1

----------------------------------------------------------------------------
(* Properties of SpecLru *)

\* the bytes the first m keys of a list count for, sized by the scripts of the node
PrefixBytes(keys, m) ==
  SumSeq([i \in 1..m |-> Len(Unwrap(ClientScript(chain, keys[i]))) + 64])

\* the longest prefix of a list of keys that fits the budget
FittingPrefix(keys, budget) ==
  SubSeq(keys, 1,
         CHOOSE m \in 0..Len(keys) :
            /\ PrefixBytes(keys, m) <= budget
            /\ \A n \in (m + 1)..Len(keys) : PrefixBytes(keys, n) > budget)

\* the lookup that was made last
LastLookup == last.checks[1]

\* C33: a hit and an insertion make the key the most recently used, an eviction removes
\* keys from the least recently used end and only until current_bytes is within
\* max_bytes, and the cached keys are a prefix of the keys ordered by last access.
C33_TrueLru ==
  /\ DOMAIN script_cache.cache = Range(script_cache.access_order)
  /\ Cardinality(DOMAIN script_cache.cache) = Len(script_cache.access_order)
  /\ script_cache.access_order
       = SubSeq(last.reads, 1, Len(script_cache.access_order))
  /\ script_cache.current_bytes <= script_cache.max_bytes
  /\ last.checks # <<>> /\ IsSome(LastLookup.val)
     => /\ last.reads[1] = LastLookup.outpoint
        /\ script_cache.access_order
             = FittingPrefix(<<LastLookup.outpoint>>
                               \o SeqRemove(LastLookup.before.access_order,
                                            LastLookup.outpoint),
                             script_cache.max_bytes)

\* a hit moved the least recently used of two keys to the front
C33_Witness ==
  /\ last.checks # <<>>
  /\ Len(LastLookup.before.access_order) = 2
  /\ LastLookup.before.access_order[2] = LastLookup.outpoint
  /\ script_cache.access_order
       = <<LastLookup.outpoint, LastLookup.before.access_order[1]>>

\* an insertion evicted the least recently used key and kept a key that was inserted
\* before it and read again since
C33_WitnessEvicted ==
  /\ last.checks # <<>>
  /\ Len(LastLookup.before.access_order) = 2
  /\ LastLookup.outpoint \notin DOMAIN LastLookup.before.cache
  /\ script_cache.access_order
       = <<LastLookup.outpoint, LastLookup.before.access_order[1]>>
  /\ LastLookup.before.access_order[1][1] < LastLookup.before.access_order[2][1]

\* C34: a miss for an unknown transaction or a vout out of range returns none and
\* inserts nothing; an error of the node is handed to the caller and leaves the cached
\* entries, their order and current_bytes as they were; a script whose entry is larger
\* than max_bytes is returned and not retained, and max_bytes is never raised.
C34_MissHandling ==
  /\ script_cache.max_bytes = ScriptCacheBudget
  /\ last.checks # <<>>
     => /\ ~IsSome(LastLookup.val) => script_cache = LastLookup.before
        /\ LastLookup.err
             <=> LastLookup.failing /\ ~Has(LastLookup.before.cache, LastLookup.outpoint)
        /\ ~LastLookup.err
           => LastLookup.val = LastLookup.known
        /\ IsSome(LastLookup.val)
           /\ Len(Unwrap(LastLookup.val)) + 64 > script_cache.max_bytes
           => ~Has(script_cache.cache, LastLookup.outpoint)

\* the node failed while two entries were cached
C34_Witness ==
  /\ last.checks # <<>>
  /\ LastLookup.err
  /\ Len(script_cache.access_order) = 2
  /\ Has(chain, LastLookup.outpoint[1])

\* a script larger than the budget was returned
C34_WitnessOversized ==
  /\ last.checks # <<>>
  /\ LastLookup.val = Some(LongScript)
  /\ LastLookup.before.access_order # <<>>

\* a vout out of range of a known transaction gave none
C34_WitnessOutOfRange ==
  /\ last.checks # <<>>
  /\ ~LastLookup.err
  /\ ~IsSome(LastLookup.val)
  /\ Has(chain, LastLookup.outpoint[1])
  /\ script_cache.access_order # <<>>

----------------------------------------------------------------------------
(* Properties of SpecTwin *)

\* the persistent tables and the burned map of a world
TablesOf(w) ==
  [outpoint_to_balances |-> w.outpoint_to_balances,
   id_to_entry |-> w.id_to_entry,
   rune_to_id |-> w.rune_to_id,
   rune_id_to_authority_flags |-> w.rune_id_to_authority_flags,
   rune_id_to_authority_scripts |-> w.rune_id_to_authority_scripts,
   rune_id_to_minters |-> w.rune_id_to_minters,
   rune_id_to_blacklist |-> w.rune_id_to_blacklist,
   rune_id_to_supply_extra |-> w.rune_id_to_supply_extra,
   burned |-> w.burned]

\* C35: after every transaction the persistent tables and the burned map are the same
\* for two updaters that index the same block and differ only in the max_bytes of
\* their ScriptCache and AuthorityContextCache.
C35_CacheTransparent ==
  tx_index > 1 => TablesOf(last.shadow) = TablesOf(World)

\* the two updaters agree as long as no rune is looked up before its creation
C35_TransparentUntilStale ==
  tx_index > 1 /\ (\A id \in DOMAIN authority_cache.contexts :
                     authority_cache.contexts[id] = load_context(World, id))
  => TablesOf(last.shadow) = TablesOf(World)

----------------------------------------------------------------------------
(* The Mint flag over the blocks of SpecMint *)

\* the runes etched with allow_minting = false
EtchedWithoutMinting ==
  {id \in DOMAIN id_to_entry :
     ~(IsSome(id_to_entry[id].terms) /\ Unwrap(id_to_entry[id].terms).allow_minting)}

\* C36: a rune etched with allow_minting = false never has the Mint flag, whatever
\* SetAuthority and AuthorityUpdates followed its etching; no edict for it was raised
\* above its unallocated balance and it has no supply_extra row.
C36_MintFlagFixed ==
  \A id \in EtchedWithoutMinting :
     /\ ~contains(MapGetOr(rune_id_to_authority_flags, id, 0), Mint)
     /\ ~Has(rune_id_to_supply_extra, id)
     /\ \A n \in 1..Len(last.log) :
          last.log[n].id = id => last.log[n].raised = last.log[n].balance

\* the Mint flag of such a rune changes only by an authorized SetAuthority that names
\* Mint
C36_OnlyBySetAuthority ==
  [][\A id \in EtchedWithoutMinting :
       contains(MapGetOr(rune_id_to_authority_flags', id, 0), Mint)
         # contains(MapGetOr(rune_id_to_authority_flags, id, 0), Mint)
       => /\ last'.set_authority.target = Some(id)
          /\ last'.set_authority.authorized
          /\ contains(last'.set_authority.authorities, Mint)]_vars

----------------------------------------------------------------------------
(* Properties of SpecSlot *)

\* the tables of w hold no script that can be reconstructed in slot kind of rune id
SlotEmpty(w, id, kind) ==
  \A slot \in {decode_authority_scripts(w, id).scripts[kind]} :
     IsSome(slot) => ~IsSome(Unwrap(slot).script)

\* what the transaction did for rune id that needs the holder of slot kind: a
\* check_authority that passed, an authorized SetAuthority naming the kind, an
\* update list gated by the kind, a mint authorized by the Mint authority
AuthorizedThrough(locals, id, kind) ==
  \/ \E n \in 1..Len(locals.checks) :
        /\ "slot" \in DOMAIN locals.checks[n]
        /\ locals.checks[n].id = id
        /\ locals.checks[n].kind = kind
        /\ locals.checks[n].val
  \/ /\ locals.set_authority.target = Some(id)
     /\ locals.set_authority.authorized
     /\ contains(locals.set_authority.authorities, kind)
  \/ /\ locals.updates.target = Some(id)
     /\ \/ kind = Master /\ locals.updates.master_ok
        \/ kind = Blacklist /\ locals.updates.blacklist_ok
  \/ /\ kind = Mint
     /\ \E n \in 1..Len(locals.log) : locals.log[n].id = id /\ locals.log[n].check_auth

\* the ids the requests name
SlotIds == DOMAIN id_to_entry \cup {NeverEtchedId}

\* C37: when slot K of a rune holds no reconstructable script (the rune was never
\* etched, was etched from a script of no compact form, was etched by a cenotaph, or
\* lost the slot), a transaction that does not etch the rune leaves slot K without a
\* script and authorizes no SetAuthority, AuthorityUpdates or mint for the rune
\* through K.
C37_EmptySlotStaysEmpty ==
  [][\A id \in SlotIds : \A kind \in {Mint, Blacklist, Master} :
       SlotEmpty(World, id, kind)
       /\ ~(IsSome(last'.etched) /\ Unwrap(last'.etched).id = id)
       => /\ SlotEmpty(World', id, kind)
          /\ ~AuthorizedThrough(last', id, kind)]_vars

\* the formless script that etched the rune asked for the Master slot, was refused, and
\* the three slots are empty
C37_Witness ==
  /\ \E id \in DOMAIN id_to_entry :
       /\ Has(rune_id_to_authority_flags, id)
       /\ \A kind \in {Mint, Blacklist, Master} : SlotEmpty(World, id, kind)
       /\ last.set_authority.target = Some(id)
       /\ contains(last.set_authority.authorities, Master)
       /\ ~last.set_authority.authorized
  /\ last.tx.fund = <<FormlessScript>>

\* a rune etched by a cenotaph was asked for 12 units by ScriptA and none were minted
C37_WitnessCenotaph ==
  /\ \E id \in DOMAIN id_to_entry :
       /\ ~Has(rune_id_to_authority_flags, id)
       /\ \E n \in 1..Len(last.log) : last.log[n].id = id /\ last.log[n].raised = 0
  /\ last.tx.fund = <<ScriptA>>

\* a rune lost its Blacklist and Master slots and kept the Mint slot, whose holder
\* handed it on
C37_WitnessLost ==
  \E id \in DOMAIN id_to_entry :
     /\ ~SlotEmpty(World, id, Mint)
     /\ SlotEmpty(World, id, Master)
     /\ SlotEmpty(World, id, Blacklist)
     /\ last.set_authority.target = Some(id)
     /\ last.set_authority.authorized
     /\ last.set_authority.authorities = mask(Mint)
     /\ tx_index = MaxSlotTx + 1

----------------------------------------------------------------------------
(* supply_extra over the blocks of SpecWide *)

\* the row of rune_id_to_supply_extra for id in a table, 0 when there is none
SupplyExtraRow(table, id) == MapGetOr(table, id, 0)

\* the transaction just indexed left supply_extra(id) at what it was plus the
\* shortfalls of its authority mints, and a cached context of a rune it minted holds
\* the row
SupplyExtraStep(id) ==
  /\ SupplyExtraRow(rune_id_to_supply_extra', id) >= SupplyExtraRow(rune_id_to_supply_extra, id)
  /\ SupplyExtraRow(rune_id_to_supply_extra', id)
     = SupplyExtraRow(rune_id_to_supply_extra, id) + Shortfalls(last'.log, id)
  /\ AuthorityMinted(last'.log, id) /\ Has(authority_cache'.contexts, id)
     => authority_cache'.contexts[id].supply_extra
        = SupplyExtraRow(rune_id_to_supply_extra', id)

\* C38: supply_extra(id) never decreases from one transaction to the next and grows by
\* exactly the authority-mint shortfalls of each transaction, without wrapping around
\* u128; after set_supply_extra the cached context of the rune holds the stored row.
C38_SupplyExtraExact ==
  [][\A id \in DOMAIN id_to_entry' : SupplyExtraStep(id)]_vars

\* the same for the transactions in which no sum passed u128::MAX
C38_ExactUntilOverflow ==
  [][(\A n \in 1..Len(last'.checks) : last'.checks[n].kind # "Overflow")
     => \A id \in DOMAIN id_to_entry' : SupplyExtraStep(id)]_vars

----------------------------------------------------------------------------
(* The bookkeeping of the context cache over SpecCtx *)

\* the sum of size_bytes over the cached contexts
CachedBytes(cc) ==
  SumOver(DOMAIN cc.contexts, [id \in DOMAIN cc.contexts |-> ContextSize(cc.contexts[id])])

\* access_order holds exactly the cached rune ids, each once
OrderMatches(cc) ==
  /\ Range(cc.access_order) = DOMAIN cc.contexts
  /\ Len(cc.access_order) = Cardinality(DOMAIN cc.contexts)

\* C39: after every get_context (insert_and_get on a miss, get_existing on a hit),
\* invalidate and update_supply_extra, current_bytes is the sum of size_bytes over the
\* cached contexts and access_order holds exactly the cached rune ids, each once;
\* update_supply_extra changes neither the LRU order nor the bytes counted, and
\* contains (a read of the map) changes nothing.
C39_Bookkeeping ==
  /\ authority_cache.current_bytes = CachedBytes(authority_cache)
  /\ OrderMatches(authority_cache)
  /\ \A id \in CtxIds, value \in {0, 5, U128_MAX} :
       \A after \in {update_supply_extra(authority_cache, id, value)} :
         /\ after.access_order = authority_cache.access_order
         /\ after.current_bytes = authority_cache.current_bytes
         /\ DOMAIN after.contexts = DOMAIN authority_cache.contexts
         /\ after.current_bytes = CachedBytes(after)
         /\ Has(authority_cache.contexts, id) => after.contexts[id].supply_extra = value

\* the cache holds several contexts, one of them with a supply_extra written by
\* update_supply_extra, and the least recently used of them is not the one written
C39_Witness ==
  /\ Cardinality(DOMAIN authority_cache.contexts) >= 2
  /\ \E id \in DOMAIN authority_cache.contexts :
       /\ authority_cache.contexts[id].supply_extra = 5
       /\ authority_cache.access_order[1] # id

\* get_existing has just moved a cached id to the front of a cache of several
C39_WitnessHit ==
  /\ Cardinality(DOMAIN authority_cache.contexts) >= 2
  /\ \E i \in 1..Len(last.checks) :
       /\ last.checks[i].kind = "Context"
       /\ last.checks[i].id \in last.checks[i].before
       /\ authority_cache.access_order[1] = last.checks[i].id

\* an insert has just evicted older contexts
C39_WitnessEvicted ==
  \E i \in 1..Len(last.checks) :
    /\ last.checks[i].kind = "Context"
    /\ last.checks[i].id \notin last.checks[i].before
    /\ last.checks[i].before \ DOMAIN authority_cache.contexts # {}
    /\ authority_cache.current_bytes > 0

----------------------------------------------------------------------------
(* The rows of outpoint_to_balances over SpecLock *)

\* a balance row is not empty, lists its rune ids in strictly ascending order (so each
\* at most once) and holds positive amounts only
WellFormedRow(row) ==
  /\ row # <<>>
  /\ \A i \in 1..Len(row) : row[i][2] > 0
  /\ \A i \in 1..Len(row) : \A j \in 1..Len(row) : i < j => IdLess(row[i][1], row[j][1])

\* C40: after every transaction every row of outpoint_to_balances, whether written
\* for an output of a transaction or rewritten under a consumed outpoint with the
\* balances locked there, is non-empty, lists each rune id at most once in ascending
\* RuneId order and holds strictly positive amounts only.
C40_RowsWellFormed ==
  \A outpoint \in DOMAIN outpoint_to_balances : WellFormedRow(outpoint_to_balances[outpoint])

\* the last transaction spent an outpoint that held two runes, one of them locked: the
\* row was rewritten with the locked balance alone, and the output written by the
\* transaction received the other
C40_Witness ==
  \E i \in 1..Len(last.tx.input) :
    /\ Has(outpoint_to_balances, last.tx.input[i])
    /\ Len(outpoint_to_balances[last.tx.input[i]]) = 1
    /\ Has(outpoint_to_balances, <<last.txid, 0>>)
    /\ outpoint_to_balances[<<last.txid, 0>>][1][1]
       # outpoint_to_balances[last.tx.input[i]][1][1]

\* a row written for an output holds two runes
C40_WitnessTwoRunes ==
  \E outpoint \in DOMAIN outpoint_to_balances :
    /\ outpoint \notin spent
    /\ Len(outpoint_to_balances[outpoint]) = 2

\* a row rewritten under a consumed outpoint holds two locked runes
C40_WitnessLockedTwo ==
  \E outpoint \in DOMAIN outpoint_to_balances \cap spent :
    Len(outpoint_to_balances[outpoint]) = 2

====
